---------------------------- MODULE Spec2Model ----------------------------
(***************************************************************************)
(* Chess rule engine of go-games (core/game): move generation, the         *)
(* GameState operations MakeMove / GetPossibleMoves / SelectPosition /     *)
(* UndoLastMove and the clock operations, as a state machine.              *)
(*                                                                         *)
(* A board is a function Board[y][x] (rank y, file x), exactly as the Go   *)
(* array [8][8]int is indexed.  Move lists are sequences in the order the  *)
(* Go code appends them.  The GameState struct is the record g.            *)
(***************************************************************************)
EXTENDS Integers, Sequences, FiniteSets, TLC

VARIABLES g,      \* the GameState the callers share
          now,    \* the wall clock read by time.Now()
          pre,    \* history variable: g as it was when the last call started
          call,   \* history variable: the last call, its arguments and result
          undos,  \* history variable: the number of UndoLastMove calls so far
          aiManager,  \* the AIManager, with the ChessAI it has built
          poller, \* the goroutine of AIManager.Start: where it is in its tick
          ui      \* the ChessUI: its event thread, its clock-refresh goroutine

vars == <<g, now, pre, call, undos, aiManager, poller, ui>>

----------------------------------------------------------------------------
(* Piece, player, status and result codes.                                 *)

Empty       == 0
WhitePawn   == 1
WhiteKnight == 2
WhiteBishop == 3
WhiteRook   == 4
WhiteQueen  == 5
WhiteKing   == 6
BlackPawn   == 7
BlackKnight == 8
BlackBishop == 9
BlackRook   == 10
BlackQueen  == 11
BlackKing   == 12

WhitePlayer == 0
BlackPlayer == 1

InProgress == "InProgress"
WhiteWon   == "WhiteWon"
BlackWon   == "BlackWon"
GameDraw   == "GameDraw"

InvalidMove == "InvalidMove"
ValidMove   == "ValidMove"
Check       == "Check"
Checkmate   == "Checkmate"
Stalemate   == "Stalemate"
Castling    == "Castling"

\* 30 * time.Minute, in clock units of one minute
InitialTime == 30

Nil == [X |-> -1, Y |-> -1]

Pos(x, y) == [X |-> x, Y |-> y]

SeqToSet(s) == {s[i] : i \in 1..Len(s)}

----------------------------------------------------------------------------
(* rules.go                                                                *)

IsValidBoardPosition(pos) ==
    pos.X >= 0 /\ pos.X < 8 /\ pos.Y >= 0 /\ pos.Y < 8

IsPieceWhite(piece) == piece >= WhitePawn /\ piece <= WhiteKing

IsPieceBlack(piece) == piece >= BlackPawn /\ piece <= BlackKing

backRank(white) ==
    IF white
    THEN <<WhiteRook, WhiteKnight, WhiteBishop, WhiteQueen,
           WhiteKing, WhiteBishop, WhiteKnight, WhiteRook>>
    ELSE <<BlackRook, BlackKnight, BlackBishop, BlackQueen,
           BlackKing, BlackBishop, BlackKnight, BlackRook>>

InitializeBoard ==
    [y \in 0..7 |->
        [x \in 0..7 |->
            CASE y = 0 -> backRank(TRUE)[x + 1]
              [] y = 1 -> WhitePawn
              [] y = 6 -> BlackPawn
              [] y = 7 -> backRank(FALSE)[x + 1]
              [] OTHER -> Empty]]

NewGame(t) ==
    [Board            |-> InitializeBoard,
     CurrentTurn      |-> WhitePlayer,
     MoveHistory      |-> << >>,
     WhiteKingMoved   |-> FALSE,
     WhiteRookAMoved  |-> FALSE,
     WhiteRookHMoved  |-> FALSE,
     BlackKingMoved   |-> FALSE,
     BlackRookAMoved  |-> FALSE,
     BlackRookHMoved  |-> FALSE,
     GameStatus       |-> InProgress,
     WhitePlayerTime  |-> InitialTime,
     BlackPlayerTime  |-> InitialTime,
     LastMoveTime     |-> t,
     TimerActive      |-> FALSE,
     SelectedPosition |-> Nil]

----------------------------------------------------------------------------
(* moves.go: pseudo-move generation                                        *)

\* the test shared by knight and king: on the board, and empty or an enemy
landable(board, isWhite, p) ==
    /\ IsValidBoardPosition(p)
    /\ \/ board[p.Y][p.X] = Empty
       \/ isWhite # IsPieceWhite(board[p.Y][p.X])

\* getPawnMoves with the start rows of the two colours exchanged
getPawnMoves_startRows(board, pos) ==
    LET isWhite   == IsPieceWhite(board[pos.Y][pos.X])
        dir       == IF isWhite THEN 1 ELSE -1
        startRow  == IF isWhite THEN 6 ELSE 1
        newPos    == Pos(pos.X, pos.Y + dir)
        doublePos == Pos(pos.X, pos.Y + 2 * dir)
        capture(dx) ==
            LET capturePos == Pos(pos.X + dx, pos.Y + dir)
            IN  IF /\ IsValidBoardPosition(capturePos)
                   /\ board[capturePos.Y][capturePos.X] # Empty
                   /\ isWhite # IsPieceWhite(board[capturePos.Y][capturePos.X])
                THEN <<capturePos>> ELSE << >>
    IN  (IF IsValidBoardPosition(newPos) /\ board[newPos.Y][newPos.X] = Empty
         THEN <<newPos>> \o
              (IF /\ pos.Y = startRow
                  /\ IsValidBoardPosition(doublePos)
                  /\ board[doublePos.Y][doublePos.X] = Empty
               THEN <<doublePos>> ELSE << >>)
         ELSE << >>) \o capture(-1) \o capture(1)

getPawnMoves(board, pos) ==
    LET isWhite   == IsPieceWhite(board[pos.Y][pos.X])
        dir       == IF isWhite THEN 1 ELSE -1
        startRow  == IF isWhite THEN 1 ELSE 6
        newPos    == Pos(pos.X, pos.Y + dir)
        doublePos == Pos(pos.X, pos.Y + 2 * dir)
        step      == IsValidBoardPosition(newPos) /\ board[newPos.Y][newPos.X] = Empty
        forward   == IF step
                     THEN <<newPos>> \o
                          (IF /\ pos.Y = startRow
                              /\ IsValidBoardPosition(doublePos)
                              /\ board[doublePos.Y][doublePos.X] = Empty
                           THEN <<doublePos>> ELSE << >>)
                     ELSE << >>
        capture(dx) ==
            LET capturePos == Pos(pos.X + dx, pos.Y + dir)
            IN  IF /\ IsValidBoardPosition(capturePos)
                   /\ board[capturePos.Y][capturePos.X] # Empty
                   /\ isWhite # IsPieceWhite(board[capturePos.Y][capturePos.X])
                THEN <<capturePos>> ELSE << >>
    IN  forward \o capture(-1) \o capture(1)

knightOffsets ==
    << Pos(-2, -1), Pos(-2, 1), Pos(-1, -2), Pos(-1, 2),
       Pos(1, -2),  Pos(1, 2),  Pos(2, -1),  Pos(2, 1) >>

getKnightMoves(board, pos) ==
    LET isWhite == IsPieceWhite(board[pos.Y][pos.X])
        cand    == [i \in 1..8 |-> Pos(pos.X + knightOffsets[i].X,
                                       pos.Y + knightOffsets[i].Y)]
    IN  SelectSeq(cand, LAMBDA p : landable(board, isWhite, p))

\* a sliding loop that never breaks on an occupied square: it goes on to
\* the edge of the board and appends whatever is empty or an enemy
slide_through(board, pos, dir) ==
    LET isWhite == IsPieceWhite(board[pos.Y][pos.X])
        cand    == [i \in 1..7 |-> Pos(pos.X + i * dir.X, pos.Y + i * dir.Y)]
    IN  SelectSeq(cand, LAMBDA p : landable(board, isWhite, p))

\* One direction of the sliding loop "for i := 1; i < 8; i++": the squares
\* appended before the loop breaks.  Square i is appended iff it is on the
\* board, every square 1..i-1 of the ray was empty, and square i is empty or
\* holds an enemy piece; those i form an initial segment 1..m.
slide(board, pos, dir) ==
    LET isWhite == IsPieceWhite(board[pos.Y][pos.X])
        sq(i)   == Pos(pos.X + i * dir.X, pos.Y + i * dir.Y)
        ok(i)   == /\ IsValidBoardPosition(sq(i))
                   /\ \A j \in 1..(i - 1) : board[sq(j).Y][sq(j).X] = Empty
                   /\ \/ board[sq(i).Y][sq(i).X] = Empty
                      \/ isWhite # IsPieceWhite(board[sq(i).Y][sq(i).X])
        m       == Cardinality({i \in 1..7 : ok(i)})
    IN  [i \in 1..m |-> sq(i)]

getBishopMoves(board, pos) ==
    slide(board, pos, Pos(-1, -1)) \o slide(board, pos, Pos(1, -1)) \o
    slide(board, pos, Pos(-1, 1))  \o slide(board, pos, Pos(1, 1))

getRookMoves(board, pos) ==
    slide(board, pos, Pos(0, -1)) \o slide(board, pos, Pos(1, 0)) \o
    slide(board, pos, Pos(0, 1))  \o slide(board, pos, Pos(-1, 0))

getQueenMoves(board, pos) ==
    getBishopMoves(board, pos) \o getRookMoves(board, pos)

kingOffsets ==
    << Pos(-1, -1), Pos(0, -1), Pos(1, -1),
       Pos(-1, 0),  Pos(1, 0),
       Pos(-1, 1),  Pos(0, 1),  Pos(1, 1) >>

getKingMoves(board, pos) ==
    LET isWhite == IsPieceWhite(board[pos.Y][pos.X])
        cand    == [i \in 1..8 |-> Pos(pos.X + kingOffsets[i].X,
                                       pos.Y + kingOffsets[i].Y)]
    IN  SelectSeq(cand, LAMBDA p : landable(board, isWhite, p))

GetPieceMoves(board, pos) ==
    LET piece == board[pos.Y][pos.X]
    IN  CASE piece \in {WhitePawn, BlackPawn}     -> getPawnMoves(board, pos)
          [] piece \in {WhiteKnight, BlackKnight} -> getKnightMoves(board, pos)
          [] piece \in {WhiteBishop, BlackBishop} -> getBishopMoves(board, pos)
          [] piece \in {WhiteRook, BlackRook}     -> getRookMoves(board, pos)
          [] piece \in {WhiteQueen, BlackQueen}   -> getQueenMoves(board, pos)
          [] piece \in {WhiteKing, BlackKing}     -> getKingMoves(board, pos)
          [] OTHER                                -> << >>

\* a generator that offers a castle only with the rook on its corner
GetKingMovesWithCastling_rookAtHome(board, pos, gameState) ==
    LET moves   == getKingMoves(board, pos)
        isWhite == IsPieceWhite(board[pos.Y][pos.X])
        row     == IF isWhite THEN 0 ELSE 7
        kingMoved == IF isWhite THEN gameState.WhiteKingMoved
                                ELSE gameState.BlackKingMoved
        rookAMoved == IF isWhite THEN gameState.WhiteRookAMoved
                                 ELSE gameState.BlackRookAMoved
        rookHMoved == IF isWhite THEN gameState.WhiteRookHMoved
                                 ELSE gameState.BlackRookHMoved
        rook == IF isWhite THEN WhiteRook ELSE BlackRook
        queenSide == IF /\ ~kingMoved /\ ~rookAMoved /\ board[row][0] = rook
                        /\ board[row][1] = Empty /\ board[row][2] = Empty
                        /\ board[row][3] = Empty
                     THEN <<Pos(2, row)>> ELSE << >>
        kingSide  == IF /\ ~kingMoved /\ ~rookHMoved /\ board[row][7] = rook
                        /\ board[row][5] = Empty /\ board[row][6] = Empty
                     THEN <<Pos(6, row)>> ELSE << >>
    IN  moves \o queenSide \o kingSide

GetKingMovesWithCastling(board, pos, gameState) ==
    LET moves   == getKingMoves(board, pos)
        isWhite == IsPieceWhite(board[pos.Y][pos.X])
        row     == IF isWhite THEN 0 ELSE 7
        kingMoved == IF isWhite THEN gameState.WhiteKingMoved
                                ELSE gameState.BlackKingMoved
        rookAMoved == IF isWhite THEN gameState.WhiteRookAMoved
                                 ELSE gameState.BlackRookAMoved
        rookHMoved == IF isWhite THEN gameState.WhiteRookHMoved
                                 ELSE gameState.BlackRookHMoved
        queenSide == IF /\ ~kingMoved /\ ~rookAMoved
                        /\ board[row][1] = Empty /\ board[row][2] = Empty
                        /\ board[row][3] = Empty
                     THEN <<Pos(2, row)>> ELSE << >>
        kingSide  == IF /\ ~kingMoved /\ ~rookHMoved
                        /\ board[row][5] = Empty /\ board[row][6] = Empty
                     THEN <<Pos(6, row)>> ELSE << >>
    IN  moves \o queenSide \o kingSide

GetPieceMovesWithGameState(board, pos, gameState) ==
    IF board[pos.Y][pos.X] \in {WhiteKing, BlackKing}
    THEN GetKingMovesWithCastling(board, pos, gameState)
    ELSE GetPieceMoves(board, pos)

----------------------------------------------------------------------------
(* rules.go: check, checkmate, stalemate                                   *)

Squares == {Pos(x, y) : x \in 0..7, y \in 0..7}

ownPiece(piece, playerTurn) ==
    /\ piece # Empty
    /\ \/ playerTurn = WhitePlayer /\ IsPieceWhite(piece)
       \/ playerTurn = BlackPlayer /\ IsPieceBlack(piece)

enemyPiece(piece, playerTurn) ==
    /\ piece # Empty
    /\ \/ playerTurn = WhitePlayer /\ IsPieceBlack(piece)
       \/ playerTurn = BlackPlayer /\ IsPieceWhite(piece)

\* The king search: the first square in scan order (y outer, x inner) that
\* holds the king; kingPos keeps its zero value (0,0) when there is none.
findKing(board, playerTurn) ==
    LET kingPiece == IF playerTurn = BlackPlayer THEN BlackKing ELSE WhiteKing
        found     == {p \in Squares : board[p.Y][p.X] = kingPiece}
    IN  IF found = {} THEN Pos(0, 0)
        ELSE CHOOSE p \in found :
                 \A q \in found : 8 * p.Y + p.X <= 8 * q.Y + q.X

IsInCheck(board, playerTurn) ==
    LET kingPos == findKing(board, playerTurn)
    IN  \E p \in Squares :
            /\ enemyPiece(board[p.Y][p.X], playerTurn)
            /\ kingPos \in SeqToSet(GetPieceMoves(board, p))

\* tempBoard[y][x] = Empty; tempBoard[move.Y][move.X] = tempPiece
movePiece(board, from, to) ==
    LET b1 == [board EXCEPT ![from.Y][from.X] = Empty]
    IN  [b1 EXCEPT ![to.Y][to.X] = board[from.Y][from.X]]

\* canEscapeCheck without the simulation of lines 132-140: any move at all
\* counts as an escape
canEscapeCheck_anyMove(board, playerTurn) ==
    \E p \in Squares :
        /\ ownPiece(board[p.Y][p.X], playerTurn)
        /\ Len(GetPieceMoves(board, p)) > 0

canEscapeCheck(board, playerTurn) ==
    \E p \in Squares :
        /\ ownPiece(board[p.Y][p.X], playerTurn)
        /\ \E move \in SeqToSet(GetPieceMoves(board, p)) :
               ~IsInCheck(movePiece(board, p, move), playerTurn)

IsCheckmate(board, playerTurn) ==
    IF ~IsInCheck(board, playerTurn) THEN FALSE
    ELSE ~canEscapeCheck(board, playerTurn)

IsStalemate(board, playerTurn) ==
    IF IsInCheck(board, playerTurn) THEN FALSE
    ELSE \A p \in Squares :
             ownPiece(board[p.Y][p.X], playerTurn)
                 => Len(GetPieceMoves(board, p)) = 0

----------------------------------------------------------------------------
(* moves.go: GameState operations.  Each returns the new GameState together  *)
(* with the Go return value.                                                 *)

\* MakeMove without lines 258-279: a two-square king move leaves the rook in
\* its corner
applyMove_kingOnly(board, from, to) ==
    [board EXCEPT ![to.Y][to.X] = board[from.Y][from.X],
                  ![from.Y][from.X] = Empty]

\* the board writes of a successful MakeMove: the rook relocation of a
\* two-square king move, then the piece itself
applyMove(board, from, to) ==
    LET piece == board[from.Y][from.X]
        row   == IF piece = WhiteKing THEN 0 ELSE 7
        rook  == IF piece = WhiteKing THEN WhiteRook ELSE BlackRook
        b1    == IF piece \in {WhiteKing, BlackKing} /\ to.X - from.X = 2
                 THEN [board EXCEPT ![row][5] = rook, ![row][7] = Empty]
                 ELSE IF piece \in {WhiteKing, BlackKing} /\ from.X - to.X = 2
                 THEN [board EXCEPT ![row][3] = rook, ![row][0] = Empty]
                 ELSE board
        b2    == [b1 EXCEPT ![to.Y][to.X] = piece]
    IN  [b2 EXCEPT ![from.Y][from.X] = Empty]

isCastlingMove(piece, from, to) ==
    /\ piece \in {WhiteKing, BlackKing}
    /\ (to.X - from.X = 2 \/ from.X - to.X = 2)

\* a MakeMove that keeps track of the kings only
setMovedFlags_kingsOnly(gs, piece, from) ==
    CASE piece = WhiteKing -> [gs EXCEPT !.WhiteKingMoved = TRUE]
      [] piece = BlackKing -> [gs EXCEPT !.BlackKingMoved = TRUE]
      [] OTHER -> gs

\* the has-moved flags after a piece has left from
setMovedFlags(gs, piece, from) ==
    CASE piece = WhiteKing -> [gs EXCEPT !.WhiteKingMoved = TRUE]
      [] piece = BlackKing -> [gs EXCEPT !.BlackKingMoved = TRUE]
      [] piece = WhiteRook /\ from.X = 0 /\ from.Y = 0 ->
             [gs EXCEPT !.WhiteRookAMoved = TRUE]
      [] piece = WhiteRook /\ from.X = 7 /\ from.Y = 0 ->
             [gs EXCEPT !.WhiteRookHMoved = TRUE]
      [] piece = BlackRook /\ from.X = 0 /\ from.Y = 7 ->
             [gs EXCEPT !.BlackRookAMoved = TRUE]
      [] piece = BlackRook /\ from.X = 7 /\ from.Y = 7 ->
             [gs EXCEPT !.BlackRookHMoved = TRUE]
      [] OTHER -> gs

\* the guards of MakeMove before its first write
moveAccepted(gs, from, to) ==
    /\ IsValidBoardPosition(from) /\ IsValidBoardPosition(to)
    /\ gs.Board[from.Y][from.X] # Empty
    /\ ~(gs.CurrentTurn = WhitePlayer /\ ~IsPieceWhite(gs.Board[from.Y][from.X]))
    /\ ~(gs.CurrentTurn = BlackPlayer /\ ~IsPieceBlack(gs.Board[from.Y][from.X]))
    /\ to \in SeqToSet(IF gs.Board[from.Y][from.X] \in {WhiteKing, BlackKing}
                       THEN GetPieceMovesWithGameState(gs.Board, from, gs)
                       ELSE GetPieceMoves(gs.Board, from))

\* a clock debit that keeps the old clock sample
debitMover_sampleKept(gs, t) ==
    IF ~gs.TimerActive THEN gs
    ELSE IF gs.CurrentTurn = WhitePlayer
    THEN [gs EXCEPT !.BlackPlayerTime = @ - (t - gs.LastMoveTime)]
    ELSE [gs EXCEPT !.WhitePlayerTime = @ - (t - gs.LastMoveTime)]

\* the clock debit at the end of a MakeMove that reaches it
debitMover(gs, t) ==
    LET elapsed == t - gs.LastMoveTime
        g1 == IF ~gs.TimerActive THEN gs
              ELSE IF gs.CurrentTurn = WhitePlayer
                   THEN [gs EXCEPT !.BlackPlayerTime = @ - elapsed]
                   ELSE [gs EXCEPT !.WhitePlayerTime = @ - elapsed]
    IN  [g1 EXCEPT !.LastMoveTime = t]

\* a MakeMove that samples the clock before it validates the request
rejectMove_sampled(gs, t) ==
    [g |-> [gs EXCEPT !.LastMoveTime = t], result |-> InvalidMove]

\* every "return InvalidMove" of MakeMove: nothing has been written yet
rejectMove(gs, t) == [g |-> gs, result |-> InvalidMove]

\* a MakeMove that records the move and leaves the turn with the mover
recordMove_keepsTurn(gs, from, to, board, isCheck, isCheckmate) ==
    [setMovedFlags(gs, gs.Board[from.Y][from.X], from) EXCEPT
        !.Board = board,
        !.MoveHistory =
            Append(@, [From |-> from, To |-> to,
                       Piece |-> gs.Board[from.Y][from.X],
                       Captured |-> gs.Board[to.Y][to.X],
                       Check |-> isCheck, Checkmate |-> isCheckmate,
                       Castling |-> isCastlingMove(gs.Board[from.Y][from.X],
                                                   from, to)])]

\* lines 284-321: the has-moved flags, the turn flip and the Move record,
\* over the board already written
recordMove(gs, from, to, board, isCheck, isCheckmate) ==
    [setMovedFlags(gs, gs.Board[from.Y][from.X], from) EXCEPT
        !.Board = board,
        !.CurrentTurn = 1 - gs.CurrentTurn,
        !.MoveHistory =
            Append(@, [From |-> from, To |-> to,
                       Piece |-> gs.Board[from.Y][from.X],
                       Captured |-> gs.Board[to.Y][to.X],
                       Check |-> isCheck, Checkmate |-> isCheckmate,
                       Castling |-> isCastlingMove(gs.Board[from.Y][from.X],
                                                   from, to)])]

\* a MakeMove that reports a castle before it reports a check
concludeMove_castlingFirst(g1, isCheck, isCheckmate, isCastling, t) ==
    IF isCheckmate
    THEN [g |-> [g1 EXCEPT !.GameStatus =
                     IF g1.CurrentTurn = WhitePlayer THEN BlackWon ELSE WhiteWon],
          result |-> Checkmate]
    ELSE IF IsStalemate(g1.Board, g1.CurrentTurn)
    THEN [g |-> [g1 EXCEPT !.GameStatus = GameDraw], result |-> Stalemate]
    ELSE [g |-> debitMover(g1, t),
          result |-> IF isCastling THEN Castling
                     ELSE IF isCheck THEN Check ELSE ValidMove]

\* lines 323-358: the outcome, the clock and the result code
concludeMove(g1, isCheck, isCheckmate, isCastling, t) ==
    IF isCheckmate
    THEN [g |-> [g1 EXCEPT !.GameStatus =
                     IF g1.CurrentTurn = WhitePlayer THEN BlackWon ELSE WhiteWon],
          result |-> Checkmate]
    ELSE IF IsStalemate(g1.Board, g1.CurrentTurn)
    THEN [g |-> [g1 EXCEPT !.GameStatus = GameDraw], result |-> Stalemate]
    ELSE [g |-> debitMover(g1, t),
          result |-> IF isCheck THEN Check
                     ELSE IF isCastling THEN Castling ELSE ValidMove]

\* lines 305-309: isCheckmate is computed only when isCheck
checkMove(gs, from, to, board, isCheck, isCheckmate, t) ==
    concludeMove(recordMove(gs, from, to, board, isCheck, isCheckmate),
                 isCheck, isCheckmate,
                 isCastlingMove(gs.Board[from.Y][from.X], from, to), t)

\* line 304: isCheck is computed for the new side to move on the new board
acceptMove(gs, from, to, board, isCheck, t) ==
    checkMove(gs, from, to, board, isCheck,
              IF isCheck THEN IsCheckmate(board, 1 - gs.CurrentTurn) ELSE FALSE,
              t)

\* lines 256-359: a request that passed the guards
performMove(gs, from, to, board, t) ==
    acceptMove(gs, from, to, board, IsInCheck(board, 1 - gs.CurrentTurn), t)

MakeMove(gs, from, to, t) ==
    IF ~moveAccepted(gs, from, to)
    THEN rejectMove(gs, t)
    ELSE performMove(gs, from, to, applyMove(gs.Board, from, to), t)

\* the returns for a position off the board and for an empty square only
nothingToMove_anySide(gs, pos) ==
    IF ~IsValidBoardPosition(pos) THEN TRUE
    ELSE gs.Board[pos.Y][pos.X] = Empty

\* GetPossibleMoves, lines 362-375: the three returns of an empty slice
nothingToMove(gs, pos) ==
    IF ~IsValidBoardPosition(pos) THEN TRUE
    ELSE IF gs.Board[pos.Y][pos.X] = Empty THEN TRUE
    ELSE \/ gs.CurrentTurn = WhitePlayer /\ ~IsPieceWhite(gs.Board[pos.Y][pos.X])
         \/ gs.CurrentTurn = BlackPlayer /\ ~IsPieceBlack(gs.Board[pos.Y][pos.X])

\* GetPossibleMoves without the filter of lines 384-397: it returns what
\* MakeMove validates against
GetPossibleMoves_unfiltered(gs, pos) ==
    IF nothingToMove(gs, pos) THEN << >>
    ELSE IF gs.Board[pos.Y][pos.X] \in {WhiteKing, BlackKing}
    THEN GetPieceMovesWithGameState(gs.Board, pos, gs)
    ELSE GetPieceMoves(gs.Board, pos)

GetPossibleMoves(gs, pos) ==
    IF nothingToMove(gs, pos) THEN << >>
    ELSE LET piece    == gs.Board[pos.Y][pos.X]
             allMoves == IF piece \in {WhiteKing, BlackKing}
                         THEN GetPieceMovesWithGameState(gs.Board, pos, gs)
                         ELSE GetPieceMoves(gs.Board, pos)
         IN  SelectSeq(allMoves,
                 LAMBDA move :
                     ~IsInCheck(movePiece(gs.Board, pos, move), gs.CurrentTurn))

\* a SelectPosition that keeps the selection when the move was refused
moveSelected_keptOnRefusal(r) ==
    [g |-> IF r.result = InvalidMove THEN r.g
           ELSE [r.g EXCEPT !.SelectedPosition = Nil],
     ok |-> r.result # InvalidMove,
     moved |-> TRUE, result |-> r.result]

\* lines 428-430: the selection is dropped after the MakeMove whose outcome
\* is r
moveSelected(r) ==
    [g |-> [r.g EXCEPT !.SelectedPosition = Nil],
     ok |-> r.result # InvalidMove,
     moved |-> TRUE, result |-> r.result]

\* returns the new GameState, the bool result, and the MakeMove it made (if any)
SelectPosition(gs, pos, t) ==
    IF ~IsValidBoardPosition(pos)
    THEN [g |-> [gs EXCEPT !.SelectedPosition = Nil], ok |-> FALSE,
          moved |-> FALSE, result |-> InvalidMove]
    ELSE IF ownPiece(gs.Board[pos.Y][pos.X], gs.CurrentTurn)
    THEN [g |-> [gs EXCEPT !.SelectedPosition = pos], ok |-> TRUE,
          moved |-> FALSE, result |-> InvalidMove]
    ELSE IF gs.SelectedPosition # Nil
    THEN moveSelected(MakeMove(gs, gs.SelectedPosition, pos, t))
    ELSE [g |-> [gs EXCEPT !.SelectedPosition = Nil], ok |-> FALSE,
          moved |-> FALSE, result |-> InvalidMove]

\* an undo that leaves the status of the game as it was
undoMove_keepStatus(gs, lastMove) ==
    LET b1 == [gs.Board EXCEPT ![lastMove.From.Y][lastMove.From.X] = lastMove.Piece]
        b2 == [b1 EXCEPT ![lastMove.To.Y][lastMove.To.X] = lastMove.Captured]
    IN  [g |-> [gs EXCEPT !.Board = b2,
                          !.CurrentTurn = 1 - gs.CurrentTurn,
                          !.MoveHistory = SubSeq(@, 1, Len(@) - 1)],
         ok |-> TRUE]

\* UndoLastMove, lines 442-453: the record lastMove is taken back
undoMove(gs, lastMove) ==
    LET b1 == [gs.Board EXCEPT ![lastMove.From.Y][lastMove.From.X] = lastMove.Piece]
        b2 == [b1 EXCEPT ![lastMove.To.Y][lastMove.To.X] = lastMove.Captured]
    IN  [g |-> [gs EXCEPT !.Board = b2,
                          !.GameStatus = InProgress,
                          !.CurrentTurn = 1 - gs.CurrentTurn,
                          !.MoveHistory = SubSeq(@, 1, Len(@) - 1)],
         ok |-> TRUE]

\* an undo that hands the move back even when there is nothing to take back
UndoLastMove_passesTurn(gs) ==
    IF Len(gs.MoveHistory) = 0
    THEN [g |-> [gs EXCEPT !.CurrentTurn = 1 - gs.CurrentTurn], ok |-> FALSE]
    ELSE undoMove(gs, gs.MoveHistory[Len(gs.MoveHistory)])

UndoLastMove(gs) ==
    IF Len(gs.MoveHistory) = 0
    THEN [g |-> gs, ok |-> FALSE]
    ELSE undoMove(gs, gs.MoveHistory[Len(gs.MoveHistory)])

StartTimer(gs, t) ==
    IF ~gs.TimerActive
    THEN [gs EXCEPT !.LastMoveTime = t, !.TimerActive = TRUE]
    ELSE gs

\* a StopTimer that charges the side to move whether the clock runs or not
StopTimer_unguarded(gs, t) ==
    [gs EXCEPT !.WhitePlayerTime =
                   IF gs.CurrentTurn = WhitePlayer THEN @ - (t - gs.LastMoveTime) ELSE @,
               !.BlackPlayerTime =
                   IF gs.CurrentTurn = WhitePlayer THEN @ ELSE @ - (t - gs.LastMoveTime),
               !.TimerActive = FALSE]

StopTimer(gs, t) ==
    IF gs.TimerActive
    THEN LET elapsed == t - gs.LastMoveTime
             g1 == IF gs.CurrentTurn = WhitePlayer
                   THEN [gs EXCEPT !.WhitePlayerTime = @ - elapsed]
                   ELSE [gs EXCEPT !.BlackPlayerTime = @ - elapsed]
         IN  [g1 EXCEPT !.TimerActive = FALSE]
    ELSE gs

GetRemainingTime(gs, player) ==
    IF player = WhitePlayer THEN gs.WhitePlayerTime ELSE gs.BlackPlayerTime

IsGameOver(gs) == gs.GameStatus # InProgress

GetGameStatus(gs) ==
    CASE gs.GameStatus = WhiteWon -> "White won by checkmate"
      [] gs.GameStatus = BlackWon -> "Black won by checkmate"
      [] gs.GameStatus = GameDraw -> "Game ended in a draw"
      [] OTHER ->
           IF IsInCheck(gs.Board, gs.CurrentTurn)
           THEN (IF gs.CurrentTurn = WhitePlayer
                 THEN "White is in check" ELSE "Black is in check")
           ELSE (IF gs.CurrentTurn = WhitePlayer
                 THEN "White to move" ELSE "Black to move")

----------------------------------------------------------------------------
(* The squares each function indexes the board at.  Every index expression *)
(* board[p.Y][p.X] the function evaluates contributes p, whether p is on   *)
(* the board or not; an index outside the board panics, and nothing after  *)
(* it is evaluated.                                                        *)

\* an index expression that is evaluated only if IsValidBoardPosition(p)
guarded(p) == IF IsValidBoardPosition(p) THEN {p} ELSE {}

\* a pawn generator that reads the square ahead without asking whether it
\* is on the board
getPawnMovesIndexed_ahead(board, pos) ==
    {pos, Pos(pos.X, pos.Y + (IF IsPieceWhite(board[pos.Y][pos.X]) THEN 1 ELSE -1))}

\* getPawnMoves, lines 35-70
getPawnMovesIndexed(board, pos) ==
    LET isWhite   == IsPieceWhite(board[pos.Y][pos.X])
        dir       == IF isWhite THEN 1 ELSE -1
        startRow  == IF isWhite THEN 1 ELSE 6
        newPos    == Pos(pos.X, pos.Y + dir)
        step      == IsValidBoardPosition(newPos) /\ board[newPos.Y][newPos.X] = Empty
    IN  {pos} \cup guarded(newPos)
            \cup (IF step /\ pos.Y = startRow
                  THEN guarded(Pos(pos.X, pos.Y + 2 * dir)) ELSE {})
            \cup guarded(Pos(pos.X - 1, pos.Y + dir))
            \cup guarded(Pos(pos.X + 1, pos.Y + dir))

\* getKnightMoves and getKingMoves: the piece, and each offset square
offsetsIndexed(pos, offsets) ==
    {pos} \cup UNION {guarded(Pos(pos.X + offsets[i].X, pos.Y + offsets[i].Y)) :
                        i \in 1..Len(offsets)}

\* one direction of a sliding loop: square i is read unless the loop broke
\* before, off the board or behind an occupied square
slideIndexed(board, pos, dir) ==
    {Pos(pos.X + i * dir.X, pos.Y + i * dir.Y) : i \in
        {i \in 1..7 :
            /\ IsValidBoardPosition(Pos(pos.X + i * dir.X, pos.Y + i * dir.Y))
            /\ \A j \in 1..(i - 1) :
                   board[pos.Y + j * dir.Y][pos.X + j * dir.X] = Empty}}

bishopDirections == {Pos(-1, -1), Pos(1, -1), Pos(-1, 1), Pos(1, 1)}

rookDirections == {Pos(0, -1), Pos(1, 0), Pos(0, 1), Pos(-1, 0)}

slidesIndexed(board, pos, directions) ==
    {pos} \cup UNION {slideIndexed(board, pos, dir) : dir \in directions}

\* GetPieceMoves, lines 3-23: the piece is read before anything else
GetPieceMovesIndexed(board, pos) ==
    IF ~IsValidBoardPosition(pos) THEN {pos}
    ELSE LET piece == board[pos.Y][pos.X]
         IN  CASE piece \in {WhitePawn, BlackPawn} ->
                      getPawnMovesIndexed(board, pos)
               [] piece \in {WhiteKnight, BlackKnight} ->
                      offsetsIndexed(pos, knightOffsets)
               [] piece \in {WhiteBishop, BlackBishop} ->
                      slidesIndexed(board, pos, bishopDirections)
               [] piece \in {WhiteRook, BlackRook} ->
                      slidesIndexed(board, pos, rookDirections)
               [] piece \in {WhiteQueen, BlackQueen} ->
                      slidesIndexed(board, pos, bishopDirections \cup rookDirections)
               [] piece \in {WhiteKing, BlackKing} ->
                      offsetsIndexed(pos, kingOffsets)
               [] OTHER -> {pos}

\* GetKingMovesWithCastling, lines 184-214: the constant squares between
\* king and rook, on the row of the king's colour
GetKingMovesWithCastlingIndexed(board, pos, gameState) ==
    LET isWhite == IsPieceWhite(board[pos.Y][pos.X])
        row     == IF isWhite THEN 0 ELSE 7
        kingMoved  == IF isWhite THEN gameState.WhiteKingMoved
                                 ELSE gameState.BlackKingMoved
        rookAMoved == IF isWhite THEN gameState.WhiteRookAMoved
                                 ELSE gameState.BlackRookAMoved
        rookHMoved == IF isWhite THEN gameState.WhiteRookHMoved
                                 ELSE gameState.BlackRookHMoved
    IN  offsetsIndexed(pos, kingOffsets)
            \cup (IF ~kingMoved /\ ~rookAMoved
                  THEN {Pos(1, row), Pos(2, row), Pos(3, row)} ELSE {})
            \cup (IF ~kingMoved /\ ~rookHMoved
                  THEN {Pos(5, row), Pos(6, row)} ELSE {})

\* lines 236-240 of MakeMove and 376-381 of GetPossibleMoves
movesIndexed(gs, pos) ==
    IF gs.Board[pos.Y][pos.X] \in {WhiteKing, BlackKing}
    THEN GetKingMovesWithCastlingIndexed(gs.Board, pos, gs)
    ELSE GetPieceMovesIndexed(gs.Board, pos)

\* IsInCheck, rules.go:68-108: the two scans, and the generator of every
\* piece of the other side
IsInCheckIndexed(board, playerTurn) ==
    Squares \cup UNION {GetPieceMovesIndexed(board, p) :
                          p \in {q \in Squares : enemyPiece(board[q.Y][q.X], playerTurn)}}

\* the generator of every piece of playerTurn
ownMovesIndexed(board, playerTurn) ==
    UNION {GetPieceMovesIndexed(board, p) :
              p \in {q \in Squares : ownPiece(board[q.Y][q.X], playerTurn)}}

\* lines 132-140 of canEscapeCheck and 386-396 of GetPossibleMoves: the
\* move is written on a copy of the board, and IsInCheck runs on the copy
trialIndexed(board, playerTurn, from, move) ==
    IF ~IsValidBoardPosition(move) THEN {from, move}
    ELSE {from, move} \cup IsInCheckIndexed(movePiece(board, from, move), playerTurn)

\* canEscapeCheck, rules.go:122-147
canEscapeCheckIndexed(board, playerTurn) ==
    Squares \cup ownMovesIndexed(board, playerTurn)
        \cup UNION {UNION {trialIndexed(board, playerTurn, p, move) :
                              move \in SeqToSet(GetPieceMoves(board, p))} :
                       p \in {q \in Squares : ownPiece(board[q.Y][q.X], playerTurn)}}

\* lines 304-331 of MakeMove: IsInCheck, IsCheckmate when in check,
\* IsStalemate when not mated, for the side that is to move next
outcomeIndexed(board, playerTurn) ==
    IsInCheckIndexed(board, playerTurn)
        \cup (IF IsInCheck(board, playerTurn)
              THEN canEscapeCheckIndexed(board, playerTurn)
              ELSE Squares \cup ownMovesIndexed(board, playerTurn))

\* MakeMove, lines 220-359
MakeMoveIndexed(gs, from, to) ==
    IF ~IsValidBoardPosition(from) \/ ~IsValidBoardPosition(to) THEN {}
    ELSE IF ~ownPiece(gs.Board[from.Y][from.X], gs.CurrentTurn) THEN {from}
    ELSE IF ~moveAccepted(gs, from, to) THEN movesIndexed(gs, from)
    ELSE movesIndexed(gs, from) \cup {from, to}
             \cup (IF isCastlingMove(gs.Board[from.Y][from.X], from, to)
                   THEN {Pos(x, IF gs.Board[from.Y][from.X] = WhiteKing THEN 0 ELSE 7) :
                            x \in {0, 3, 5, 7}}
                   ELSE {})
             \cup outcomeIndexed(applyMove(gs.Board, from, to), 1 - gs.CurrentTurn)

\* GetPossibleMoves, lines 360-400
GetPossibleMovesIndexed(gs, pos) ==
    IF ~IsValidBoardPosition(pos) THEN {}
    ELSE IF nothingToMove(gs, pos) THEN {pos}
    ELSE movesIndexed(gs, pos)
             \cup UNION {trialIndexed(gs.Board, gs.CurrentTurn, pos, move) :
                            move \in SeqToSet(GetPossibleMoves_unfiltered(gs, pos))}

\* SelectPosition, lines 413-435
SelectPositionIndexed(gs, pos) ==
    IF ~IsValidBoardPosition(pos) THEN {}
    ELSE IF ownPiece(gs.Board[pos.Y][pos.X], gs.CurrentTurn) THEN {pos}
    ELSE IF gs.SelectedPosition # Nil
    THEN {pos} \cup MakeMoveIndexed(gs, gs.SelectedPosition, pos)
    ELSE {pos}

\* GetPieceAtPosition, lines 480-485
GetPieceAtPositionIndexed(gs, pos) == guarded(pos)

\* GetGameStatus, lines 456-478
GetGameStatusIndexed(gs) ==
    IF gs.GameStatus # InProgress THEN {}
    ELSE IsInCheckIndexed(gs.Board, gs.CurrentTurn)

----------------------------------------------------------------------------
(* manager.go: the AIManager and the ChessAI.  The game state both hold a  *)
(* pointer to is g; the ticker, the channel and the callback are left out. *)

\* m.ai before the first rebuildAI
NoAI == [playerColor |-> -1, difficulty |-> 0, aiColor |-> -1]

\* enabled is the field of that name; ticking says that m.ticker is not nil
NewAIManager ==
    [aiColor |-> BlackPlayer, aiDifficulty |-> 0, ai |-> NoAI,
     enabled |-> FALSE, ticking |-> FALSE]

NewChessAI(playerColor, difficulty) ==
    [playerColor |-> playerColor, difficulty |-> difficulty,
     aiColor |-> playerColor]

\* the ChessAI of rebuildAI for a manager with fields aiColor, aiDifficulty
builtAI(aiColor, aiDifficulty) ==
    [NewChessAI(IF aiColor = BlackPlayer THEN WhitePlayer ELSE BlackPlayer, 2)
        EXCEPT !.difficulty = IF aiDifficulty > 0 THEN aiDifficulty ELSE @]

rebuildAI(mgr) == [mgr EXCEPT !.ai = builtAI(mgr.aiColor, mgr.aiDifficulty)]

SetAIColor(mgr, color) == rebuildAI([mgr EXCEPT !.aiColor = color])

SetDifficulty(mgr, difficulty) ==
    rebuildAI([mgr EXCEPT !.aiDifficulty = difficulty])

\* Start, lines 71-76; the goroutine it launches is the poller
Start(mgr) ==
    IF mgr.ticking THEN mgr
    ELSE [rebuildAI(mgr) EXCEPT !.ticking = TRUE]

\* Stop: the ticker is stopped and the goroutine is told to return
Stop(mgr) == [mgr EXCEPT !.ticking = FALSE]

SetEnabled(mgr, enabled) ==
    IF mgr.enabled = enabled THEN mgr
    ELSE IF enabled THEN Start([mgr EXCEPT !.enabled = TRUE])
    ELSE Stop([mgr EXCEPT !.enabled = FALSE])

\* a poller that does not ask whether the game is over
aiTurnDetected_anyStatus(mgr, gs) ==
    mgr.enabled /\ gs.CurrentTurn = mgr.aiColor

\* line 82: the condition under which a tick calls m.ai.MakeMove
aiTurnDetected(mgr, gs) ==
    mgr.enabled /\ gs.CurrentTurn = mgr.aiColor /\ ~IsGameOver(gs)

PieceValues(piece) ==
    CASE piece \in {WhitePawn, BlackPawn}     -> 100
      [] piece \in {WhiteKnight, BlackKnight} -> 320
      [] piece \in {WhiteBishop, BlackBishop} -> 330
      [] piece \in {WhiteRook, BlackRook}     -> 500
      [] piece \in {WhiteQueen, BlackQueen}   -> 900
      [] piece \in {WhiteKing, BlackKing}     -> 20000
      [] OTHER                                -> 0

PieceProtectionValue(piece) ==
    CASE piece \in {WhitePawn, BlackPawn}     -> 50
      [] piece \in {WhiteKnight, BlackKnight} -> 200
      [] piece \in {WhiteBishop, BlackBishop} -> 200
      [] piece \in {WhiteRook, BlackRook}     -> 350
      [] piece \in {WhiteQueen, BlackQueen}   -> 800
      [] piece \in {WhiteKing, BlackKing}     -> 5000
      [] OTHER                                -> 0

\* some piece of the colour opposite to playerColor has pos among its moves
isPositionUnderAttack(board, pos, playerColor) ==
    \E p \in Squares :
        /\ board[p.Y][p.X] # Empty
        /\ IF playerColor = BlackPlayer
           THEN IsPieceWhite(board[p.Y][p.X])
           ELSE ~IsPieceWhite(board[p.Y][p.X])
        /\ pos \in SeqToSet(GetPieceMoves(board, p))

GetPieceAtPosition(gs, pos) ==
    IF ~IsValidBoardPosition(pos) THEN Empty ELSE gs.Board[pos.Y][pos.X]

\* getAllPossibleMoves asking for the moves of the piece (GetPieceMoves, as
\* MakeMove does) instead of GetPossibleMoves
movesOfSquare_pseudo(gs, color, pos, moves) ==
    IF GetPieceAtPosition(gs, pos) = Empty THEN << >>
    ELSE IF \/ color = WhitePlayer /\ ~IsPieceWhite(GetPieceAtPosition(gs, pos))
            \/ color = BlackPlayer /\ IsPieceWhite(GetPieceAtPosition(gs, pos))
    THEN << >>
    ELSE [i \in 1..Len(GetPossibleMoves_unfiltered(gs, pos)) |->
             [From |-> pos, To |-> GetPossibleMoves_unfiltered(gs, pos)[i],
              Piece |-> GetPieceAtPosition(gs, pos),
              CapturePiece |->
                  GetPieceAtPosition(gs, GetPossibleMoves_unfiltered(gs, pos)[i]),
              Score |-> 0]]

\* the Move values appended for the square pos
movesOfSquare(gs, color, pos, moves) ==
    IF GetPieceAtPosition(gs, pos) = Empty THEN << >>
    ELSE IF \/ color = WhitePlayer /\ ~IsPieceWhite(GetPieceAtPosition(gs, pos))
            \/ color = BlackPlayer /\ IsPieceWhite(GetPieceAtPosition(gs, pos))
    THEN << >>
    ELSE [i \in 1..Len(moves) |->
             [From |-> pos, To |-> moves[i],
              Piece |-> GetPieceAtPosition(gs, pos),
              CapturePiece |-> GetPieceAtPosition(gs, moves[i]),
              Score |-> 0]]

\* the squares in the order of the loops "for y ... for x ..."
scanOrder == [i \in 1..64 |-> Pos((i - 1) % 8, (i - 1) \div 8)]

RECURSIVE movesFromSquare(_, _, _)
movesFromSquare(gs, color, i) ==
    IF i > 64 THEN << >>
    ELSE movesOfSquare(gs, color, scanOrder[i],
                       GetPossibleMoves(gs, scanOrder[i]))
         \o movesFromSquare(gs, color, i + 1)

getAllPossibleMoves(gs, color) == movesFromSquare(gs, color, 1)

isQueen(piece) == piece \in {WhiteQueen, BlackQueen}

\* getRandomMove, lines 257-289: the score of one candidate; tempBoard is
\* the board after the temporary move
easyScore(ai, piece, capturedPiece, to, tempBoard) ==
    (IF IsInCheck(tempBoard, ai.aiColor) THEN -500 ELSE 0)
    + (IF /\ isQueen(piece)
          /\ isPositionUnderAttack(tempBoard, to, ai.playerColor)
          /\ PieceValues(capturedPiece) < 600
       THEN -800 ELSE 0)

\* getRandomMove, lines 291-326: the candidates the random index ranges over
easyChoices(moves) ==
    LET goodMoves == SelectSeq(moves, LAMBDA mv : mv.Score >= 0)
        okayMoves == SelectSeq(moves, LAMBDA mv : mv.Score < 0 /\ mv.Score > -400)
        safeMoves == SelectSeq(moves, LAMBDA mv : mv.Score > -700)
    IN  IF Len(goodMoves) > 0 THEN SeqToSet(goodMoves)
        ELSE IF Len(okayMoves) > 0 THEN SeqToSet(okayMoves)
        ELSE IF Len(safeMoves) > 0 THEN SeqToSet(safeMoves)
        ELSE SeqToSet(moves)

\* the set of moves getRandomMove can return
getRandomMove(ai, gs, moves) ==
    easyChoices([i \in 1..Len(moves) |->
        [moves[i] EXCEPT !.Score =
            easyScore(ai, gs.Board[moves[i].From.Y][moves[i].From.X],
                      gs.Board[moves[i].To.Y][moves[i].To.X], moves[i].To,
                      movePiece(gs.Board, moves[i].From, moves[i].To))]])

inCenter(to) == (to.X >= 2 /\ to.X <= 5) /\ (to.Y >= 2 /\ to.Y <= 5)

\* getMediumMove, lines 330-364: the score of one candidate
mediumScore(ai, mv, piece, capturedPiece, tempBoard) ==
    (IF mv.CapturePiece # Empty THEN PieceValues(mv.CapturePiece) ELSE 0)
    + (IF IsInCheck(tempBoard, ai.aiColor) THEN -1000 ELSE 0)
    + (IF inCenter(mv.To) THEN 10 ELSE 0)
    + (IF isPositionUnderAttack(tempBoard, mv.To, ai.playerColor)
       THEN (IF isQueen(piece) THEN -(900 + PieceProtectionValue(piece))
             ELSE IF PieceValues(piece) > PieceValues(capturedPiece)
             THEN -PieceProtectionValue(piece) ELSE 0)
       ELSE 0)

\* sortMovesByScore, the loop over j for one i (indices from 1)
RECURSIVE sortInner(_, _, _)
sortInner(moves, i, j) ==
    IF j > Len(moves) THEN moves
    ELSE sortInner(IF moves[j].Score > moves[i].Score
                   THEN [moves EXCEPT ![i] = moves[j], ![j] = moves[i]]
                   ELSE moves,
                   i, j + 1)

\* sortMovesByScore, the loop over i
RECURSIVE sortOuter(_, _)
sortOuter(moves, i) ==
    IF i >= Len(moves) THEN moves
    ELSE sortOuter(sortInner(moves, i, i + 1), i + 1)

sortMovesByScore(moves) == sortOuter(moves, 1)

\* a choice among the first four entries
firstFew_four(moves) ==
    {moves[i] : i \in 1..(IF Len(moves) < 4 THEN Len(moves) ELSE 4)}

\* lines 368-373: one of the first numToConsider entries
firstFew(moves) ==
    {moves[i] : i \in 1..(IF Len(moves) < 3 THEN Len(moves) ELSE 3)}

\* getMediumMove, lines 330-364: the candidates with their scores assigned
mediumScored(ai, gs, moves) ==
    [i \in 1..Len(moves) |->
        [moves[i] EXCEPT !.Score =
            mediumScore(ai, moves[i],
                        gs.Board[moves[i].From.Y][moves[i].From.X],
                        gs.Board[moves[i].To.Y][moves[i].To.X],
                        movePiece(gs.Board, moves[i].From, moves[i].To))]]

\* the set of moves getMediumMove can return
getMediumMove(ai, gs, moves) ==
    firstFew(sortMovesByScore(mediumScored(ai, gs, moves)))

\* lines 459-471: a knight or bishop leaving its starting square
isStartingPos(piece, from) ==
    \/ piece = WhiteKnight /\ from.Y = 0 /\ (from.X = 1 \/ from.X = 6)
    \/ piece = BlackKnight /\ from.Y = 7 /\ (from.X = 1 \/ from.X = 6)
    \/ piece = WhiteBishop /\ from.Y = 0 /\ (from.X = 2 \/ from.X = 5)
    \/ piece = BlackBishop /\ from.Y = 7 /\ (from.X = 2 \/ from.X = 5)

\* lines 446-454
centerBonus(to) ==
    IF inCenter(to)
    THEN (IF (to.X >= 3 /\ to.X <= 4) /\ (to.Y >= 3 /\ to.Y <= 4)
          THEN 25 ELSE 15)
    ELSE 0

\* getHardMove, lines 397-482: the score of one candidate
hardScore(ai, gs, mv, piece, capturedPiece, tempBoard, opponentColor) ==
    PieceValues(mv.CapturePiece)
    + (IF isQueen(piece)
       THEN (IF ~isQueen(capturedPiece)
             THEN -(900 + (PieceValues(piece) - PieceValues(capturedPiece)) * 2)
             ELSE 0)
       ELSE IF PieceValues(piece) > PieceValues(capturedPiece) + 20
       THEN -(PieceValues(piece) - PieceValues(capturedPiece))
       ELSE 0)
    + (IF isPositionUnderAttack(tempBoard, mv.To, ai.playerColor)
       THEN (IF isQueen(piece) THEN -(900 + PieceProtectionValue(piece))
             ELSE -PieceProtectionValue(piece))
       ELSE 0)
    + (IF IsInCheck(tempBoard, opponentColor)
       THEN 60 + (IF IsCheckmate(tempBoard, opponentColor) THEN 20000 ELSE 0)
       ELSE 0)
    + (IF IsInCheck(tempBoard, ai.aiColor) THEN -1500 ELSE 0)
    + centerBonus(mv.To)
    + (IF /\ Len(gs.MoveHistory) < 10
          /\ piece \in {WhiteKnight, BlackKnight, WhiteBishop, BlackBishop}
          /\ isStartingPos(piece, mv.From)
       THEN 40 ELSE 0)

\* a search for the highest score that lets a later move of equal score win
RECURSIVE bestFrom_lastWins(_, _, _)
bestFrom_lastWins(moves, best, i) ==
    IF i > Len(moves) THEN best
    ELSE bestFrom_lastWins(moves,
                           IF moves[i].Score >= best.Score THEN moves[i] ELSE best,
                           i + 1)

\* lines 488-493: the loop over moves[1:], from index i on
RECURSIVE bestFrom(_, _, _)
bestFrom(moves, best, i) ==
    IF i > Len(moves) THEN best
    ELSE bestFrom(moves,
                  IF moves[i].Score > best.Score THEN moves[i] ELSE best,
                  i + 1)

\* lines 485-495: the first move of the highest score
bestMove(moves) == bestFrom(moves, moves[1], 2)

\* getHardMove, lines 397-482: the candidates with their scores assigned
hardScored(ai, gs, moves) ==
    [i \in 1..Len(moves) |->
        [moves[i] EXCEPT !.Score =
            hardScore(ai, gs, moves[i],
                      gs.Board[moves[i].From.Y][moves[i].From.X],
                      gs.Board[moves[i].To.Y][moves[i].To.X],
                      movePiece(gs.Board, moves[i].From, moves[i].To),
                      IF ai.playerColor = WhitePlayer
                      THEN BlackPlayer ELSE WhitePlayer)]]

\* the set of moves getHardMove can return
getHardMove(ai, gs, moves) == {bestMove(hardScored(ai, gs, moves))}

\* lines 195-205: the switch on the difficulty
selectedMoves(ai, gs, allMoves) ==
    CASE ai.difficulty = 1 -> getRandomMove(ai, gs, allMoves)
      [] ai.difficulty = 2 -> getMediumMove(ai, gs, allMoves)
      [] ai.difficulty = 3 -> getHardMove(ai, gs, allMoves)
      [] OTHER             -> getRandomMove(ai, gs, allMoves)

\* lines 207-209: the selected move is submitted; r is what MakeMove returned
submitted(selectedMove, r) ==
    [g |-> r.g, ok |-> r.result # InvalidMove, from |-> selectedMove.From,
     to |-> selectedMove.To, result |-> r.result]

\* an AI that, finding nothing to play, records the game as lost
noMoveMade_resigns(gs) ==
    [g |-> [gs EXCEPT !.GameStatus =
                IF gs.CurrentTurn = WhitePlayer THEN BlackWon ELSE WhiteWon],
     ok |-> FALSE, from |-> Nil, to |-> Nil, result |-> InvalidMove]

\* lines 183-193: no move is submitted
noMoveMade(gs) ==
    [g |-> gs, ok |-> FALSE, from |-> Nil, to |-> Nil, result |-> InvalidMove]

\* lines 190-209, once the candidates are enumerated
moveOfAI(ai, gs, allMoves, t) ==
    IF Len(allMoves) = 0 THEN {noMoveMade(gs)}
    ELSE {submitted(mv, MakeMove(gs, mv.From, mv.To, t)) :
              mv \in selectedMoves(ai, gs, allMoves)}

\* ChessAI.MakeMove up to line 205, once the candidates are enumerated: the
\* moves it can have selected, none if it returns false
movesThought(ai, gs, allMoves) ==
    IF Len(allMoves) = 0 THEN {} ELSE selectedMoves(ai, gs, allMoves)

\* ChessAI.MakeMove up to line 205: the read of the turn, the enumeration
\* and the selection
thinkMove(ai, gs) ==
    IF gs.CurrentTurn # (IF ai.playerColor = WhitePlayer
                         THEN BlackPlayer ELSE WhitePlayer)
    THEN {}
    ELSE movesThought(ai, gs, getAllPossibleMoves(gs, gs.CurrentTurn))

\* ChessAI.MakeMove: the set of its outcomes, one for every value the random
\* source can give
AIMakeMove(ai, gs, t) ==
    IF gs.CurrentTurn # (IF ai.playerColor = WhitePlayer
                         THEN BlackPlayer ELSE WhitePlayer)
    THEN {noMoveMade(gs)}
    ELSE moveOfAI(ai, gs, getAllPossibleMoves(gs, gs.CurrentTurn), t)

----------------------------------------------------------------------------
(* The callers.  The moves offered to MakeMove and the squares clicked     *)
(* through SelectPosition are drawn, at every ply, from a few recorded     *)
(* game lines and from a set of malformed requests.                        *)

Mv(fx, fy, tx, ty) == [From |-> Pos(fx, fy), To |-> Pos(tx, ty)]

\* 1.f3 e5 2.g4 Qh4# (fool's mate), then 3.g5 Qxe1
FoolsMate ==
    << Mv(5,1,5,2), Mv(4,6,4,4), Mv(6,1,6,3), Mv(3,7,7,3),
       Mv(6,3,6,4), Mv(7,3,4,0) >>

\* 1.f3 e5 2.g3 Qh4 3.g4 (uncovers the own king) Qxe1
SelfCheck ==
    << Mv(5,1,5,2), Mv(4,6,4,4), Mv(6,1,6,2), Mv(3,7,7,3),
       Mv(6,2,6,3), Mv(7,3,4,0) >>

\* 1.Nf3 e5 2.e3 Nf6 3.Be2 Be7 4.O-O O-O
CastleShort ==
    << Mv(6,0,5,2), Mv(4,6,4,4), Mv(4,1,4,2), Mv(6,7,5,5),
       Mv(5,0,4,1), Mv(5,7,4,6), Mv(4,0,6,0), Mv(4,7,6,7) >>

\* Sam Loyd's ten-move stalemate: 1.e3 a5 2.Qh5 Ra6 3.Qxa5 h5 4.h4 Rah6
\* 5.Qxc7 f6 6.Qxd7+ Kf7 7.Qxb7 Qd3 8.Qxb8 Qh7 9.Qxc8 Kg6 10.Qe6
LoydStalemate ==
    << Mv(4,1,4,2), Mv(0,6,0,4), Mv(3,0,7,4), Mv(0,7,0,5),
       Mv(7,4,0,4), Mv(7,6,7,4), Mv(7,1,7,3), Mv(0,5,7,5),
       Mv(0,4,2,6), Mv(5,6,5,5), Mv(2,6,3,6), Mv(4,7,5,6),
       Mv(3,6,1,6), Mv(3,7,3,2), Mv(1,6,1,7), Mv(3,2,7,6),
       Mv(1,7,2,7), Mv(5,6,6,5), Mv(2,7,4,5) >>

\* 1.d4 d5 2.Nc3 Nc6 3.Bf4 Bf5 4.Qd2 Qd7 5.O-O-O O-O-O
CastleLong ==
    << Mv(3,1,3,3), Mv(3,6,3,4), Mv(1,0,2,2), Mv(1,7,2,5),
       Mv(2,0,5,3), Mv(2,7,5,4), Mv(3,0,3,1), Mv(3,7,3,6),
       Mv(4,0,2,0), Mv(4,7,2,7) >>

\* 1.e3 Nc6 2.Bd3 Nb4 3.Ne2 Nf6 4.c3 Nh5 5.a3 Ng3 6.a4 Nxd3+: the white king
\* is in check, no ordinary move answers it, f1 and g1 are empty
KnightNet ==
    << Mv(4,1,4,2), Mv(1,7,2,5), Mv(5,0,3,2), Mv(2,5,1,3),
       Mv(6,0,4,1), Mv(6,7,5,5), Mv(2,1,2,2), Mv(5,5,7,4),
       Mv(0,1,0,2), Mv(7,4,6,2), Mv(0,2,0,3), Mv(1,3,3,2),
       Mv(4,0,6,0) >>

\* 1.e3 a5 2.Qg4 a4 3.Qxg7 Nc6 4.Qxf8+ Nb8 5.Qxe7+ Nc6 6.Qxd8+ Nb8 7.Qxc7 Nc6
\* 8.Qxc8+ Nb8 9.Qxe8 Nc6 10.Qxf7 Nb8 11.Qxh7 Nc6 12.Qxh8 Nb8 13.Qxg8 Nc6
\* 14.Qxa8 Nb8 15.Qxb7 Nc6 16.Qxd7 Nb8 17.Bc4 Nc6 18.b4 Nb8 19.Ne2 Nc6
\* 20.Qxc6 a3 21.O-O: Black is left with the blocked pawn a3 alone
CastleStalemate ==
    << Mv(4,1,4,2), Mv(0,6,0,4), Mv(3,0,6,3), Mv(0,4,0,3),
       Mv(6,3,6,6), Mv(1,7,2,5), Mv(6,6,5,7), Mv(2,5,1,7),
       Mv(5,7,4,6), Mv(1,7,2,5), Mv(4,6,3,7), Mv(2,5,1,7),
       Mv(3,7,2,6), Mv(1,7,2,5), Mv(2,6,2,7), Mv(2,5,1,7),
       Mv(2,7,4,7), Mv(1,7,2,5), Mv(4,7,5,6), Mv(2,5,1,7),
       Mv(5,6,7,6), Mv(1,7,2,5), Mv(7,6,7,7), Mv(2,5,1,7),
       Mv(7,7,6,7), Mv(1,7,2,5), Mv(6,7,0,7), Mv(2,5,1,7),
       Mv(0,7,1,6), Mv(1,7,2,5), Mv(1,6,3,6), Mv(2,5,1,7),
       Mv(5,0,2,3), Mv(1,7,2,5), Mv(1,1,1,3), Mv(2,5,1,7),
       Mv(6,0,4,1), Mv(1,7,2,5), Mv(3,6,2,5), Mv(0,3,0,2),
       Mv(4,0,6,0) >>

\* 1.f4 e5 2.fxe5 f5 3.e4 fxe4 4.Be2 Kf7 5.Nh3 a6 6.O-O+: the rook arrives on
\* the open f-file and checks the king on f7
CastleCheck ==
    << Mv(5,1,5,3), Mv(4,6,4,4), Mv(5,3,4,4), Mv(5,6,5,4),
       Mv(4,1,4,3), Mv(5,4,4,3), Mv(5,0,4,1), Mv(4,7,5,6),
       Mv(6,0,7,2), Mv(0,6,0,5), Mv(4,0,6,0) >>

\* 1.Nf3 b6 2.g3 Bb7 3.Nh4 Bxh1 4.Bh3 a6 5.O-O a5: the rook h1 is taken on
\* its corner, where the bishop that took it stays
CornerTaken ==
    << Mv(6,0,5,2), Mv(1,6,1,5), Mv(6,1,6,2), Mv(2,7,1,6),
       Mv(5,2,7,3), Mv(1,6,7,0), Mv(5,0,7,2), Mv(0,6,0,5),
       Mv(4,0,6,0), Mv(0,5,0,4) >>

\* 1.a4 b5 2.axb5 a6 3.bxa6 Bb7 4.axb7 Nc6 5.bxa8 e6 6.h3: a white pawn
\* reaches the last rank and stays a pawn
PawnRun ==
    << Mv(0,1,0,3), Mv(1,6,1,4), Mv(0,3,1,4), Mv(0,6,0,5),
       Mv(1,4,0,5), Mv(2,7,1,6), Mv(0,5,1,6), Mv(1,7,2,5),
       Mv(1,6,0,7), Mv(4,6,4,5), Mv(7,1,7,2) >>

Lines == {FoolsMate, SelfCheck, CastleShort, CastleLong, KnightNet,
          LoydStalemate, CastleStalemate}

\* requests MakeMove must refuse: a source off the board, a destination off
\* the board, an empty source (e4), and the rook a1 jumping over its pawn
\* (a piece of the wrong side whenever Black is to move)
Probes == { Mv(8,0,0,0), Mv(0,0,0,-1), Mv(4,3,4,4), Mv(0,0,0,2) }

\* the lines played while the clock is watched
ClockLines == {FoolsMate}

\* the lines among ls that the game on record is a prefix of
followingIn(gs, ls) ==
    {l \in ls :
        /\ Len(l) > Len(gs.MoveHistory)
        /\ \A i \in 1..Len(gs.MoveHistory) :
               /\ l[i].From = gs.MoveHistory[i].From
               /\ l[i].To = gs.MoveHistory[i].To}

following(gs) == followingIn(gs, Lines)

\* the requests offered in state gs: the next move of every line of ls being
\* followed, and the malformed ones
Inputs(gs, ls) ==
    {l[Len(gs.MoveHistory) + 1] : l \in followingIn(gs, ls)} \cup Probes

\* the squares offered to SelectPosition in state gs: once the self-check
\* line is the only one being followed, the two squares of its next move and
\* one square off the board
Clicks(gs) ==
    IF following(gs) = {SelfCheck}
    THEN {SelfCheck[Len(gs.MoveHistory) + 1].From,
          SelfCheck[Len(gs.MoveHistory) + 1].To, Pos(8, 0)}
    ELSE {}

\* the number of UndoLastMove calls explored in one run
MaxUndos == 2

NoCall == [op |-> "NewGame", from |-> Nil, to |-> Nil,
           result |-> InvalidMove, ok |-> TRUE]

\* the poller waits for the next tick; seen is what it read when its last
\* tick began
NoTick == [enabled |-> FALSE, aiColor |-> -1, turn |-> -1, status |-> ""]

Idle == [pc |-> "idle", move |-> Nil, seen |-> NoTick]

\* no ChessUI has been constructed: no event thread, no clock-refresh
\* goroutine, no poller goroutine, no game started from the interface
NoUI == [thread |-> "none", refresher |-> "none", timer |-> FALSE,
         polling |-> FALSE, games |-> 0]

Init ==
    /\ now = 0
    /\ g = NewGame(0)
    /\ pre = NewGame(0)
    /\ call = NoCall
    /\ undos = 0
    /\ aiManager = NewAIManager
    /\ poller = Idle
    /\ ui = NoUI

\* one MakeMove call with a request among those of requests
CallMakeMoveOf(requests) ==
    \E m \in requests :
        \E r \in {MakeMove(g, m.From, m.To, now)} :
            /\ g' = r.g
            /\ pre' = g
            /\ call' = [op |-> "MakeMove", from |-> m.From, to |-> m.To,
                        result |-> r.result, ok |-> r.result # InvalidMove]
            /\ UNCHANGED <<now, undos, aiManager, poller, ui>>

CallMakeMove(ls) == CallMakeMoveOf(Inputs(g, ls))

DoMakeMove == CallMakeMove(Lines)

DoSelectPosition ==
    \E pos \in Clicks(g) :
        \E r \in {SelectPosition(g, pos, now)} :
            /\ g' = r.g
            /\ pre' = g
            /\ call' = [op |-> IF r.moved THEN "SelectMove" ELSE "SelectPosition",
                        from |-> IF r.moved THEN g.SelectedPosition ELSE Nil,
                        to |-> pos, result |-> r.result, ok |-> r.ok]
            /\ UNCHANGED <<now, undos, aiManager, poller, ui>>

DoUndoLastMove ==
    \E r \in {UndoLastMove(g)} :
        /\ undos < MaxUndos
        /\ undos' = undos + 1
        /\ g' = r.g
        /\ pre' = g
        /\ call' = [op |-> "UndoLastMove", from |-> Nil, to |-> Nil,
                    result |-> InvalidMove, ok |-> r.ok]
        /\ UNCHANGED <<now, aiManager, poller, ui>>

Next == DoMakeMove \/ DoSelectPosition \/ DoUndoLastMove

Spec == Init /\ [][Next]_vars

----------------------------------------------------------------------------
(* The same GameState with its clock running: moves of the clock lines,    *)
(* StartTimer, StopTimer, and the passing of time.                         *)

\* the wall clock is followed up to this time
MaxTime == 2

DoTimedMove == CallMakeMove(ClockLines)

DoStartTimer ==
    /\ g' = StartTimer(g, now)
    /\ pre' = g
    /\ call' = [op |-> "StartTimer", from |-> Nil, to |-> Nil,
                result |-> InvalidMove, ok |-> TRUE]
    /\ UNCHANGED <<now, undos, aiManager, poller, ui>>

DoStopTimer ==
    /\ g' = StopTimer(g, now)
    /\ pre' = g
    /\ call' = [op |-> "StopTimer", from |-> Nil, to |-> Nil,
                result |-> InvalidMove, ok |-> TRUE]
    /\ UNCHANGED <<now, undos, aiManager, poller, ui>>

Tick ==
    /\ now < MaxTime
    /\ now' = now + 1
    /\ UNCHANGED <<g, pre, call, undos, aiManager, poller, ui>>

NextClock == DoTimedMove \/ DoStartTimer \/ DoStopTimer \/ Tick

SpecClock == Init /\ [][NextClock]_vars

----------------------------------------------------------------------------
(* The same GameState played by a human caller and by the ChessAI, which   *)
(* is called in the positions of the recorded lines, for either colour and *)
(* every difficulty the manager can be set to.                             *)

\* the lines the human caller follows when the AI plays
AILines == {FoolsMate, SelfCheck, KnightNet}

\* the game on record is one of the lines ls, or the beginning of one
onRecord(gs, ls) ==
    \E l \in ls :
        /\ Len(l) >= Len(gs.MoveHistory)
        /\ \A i \in 1..Len(gs.MoveHistory) :
               /\ l[i].From = gs.MoveHistory[i].From
               /\ l[i].To = gs.MoveHistory[i].To

\* the human caller plays the next move of a line
DoHumanMove ==
    CallMakeMoveOf({l[Len(g.MoveHistory) + 1] : l \in followingIn(g, AILines)})

DoSetAIColor ==
    \E color \in {WhitePlayer, BlackPlayer} :
        /\ onRecord(g, AILines)
        /\ aiManager' = SetAIColor(aiManager, color)
        /\ pre' = g
        /\ call' = [op |-> "SetAIColor", from |-> Nil, to |-> Nil,
                    result |-> InvalidMove, ok |-> TRUE]
        /\ UNCHANGED <<g, now, undos, poller, ui>>

DoSetDifficulty ==
    \E difficulty \in 1..3 :
        /\ onRecord(g, AILines)
        /\ aiManager' = SetDifficulty(aiManager, difficulty)
        /\ pre' = g
        /\ call' = [op |-> "SetDifficulty", from |-> Nil, to |-> Nil,
                    result |-> InvalidMove, ok |-> TRUE]
        /\ UNCHANGED <<g, now, undos, poller, ui>>

\* m.ai.MakeMove()
DoAIMove ==
    /\ aiManager.ai # NoAI
    /\ onRecord(g, AILines)
    /\ \E r \in AIMakeMove(aiManager.ai, g, now) :
           /\ g' = r.g
           /\ pre' = g
           /\ call' = [op |-> "AIMove", from |-> r.from, to |-> r.to,
                       result |-> r.result, ok |-> r.ok]
    /\ UNCHANGED <<now, undos, aiManager, poller, ui>>

NextAI == DoHumanMove \/ DoSetAIColor \/ DoSetDifficulty \/ DoAIMove

SpecAI == Init /\ [][NextAI]_vars

----------------------------------------------------------------------------
(* The clock and UndoLastMove together: games that end, and games in which *)
(* kings and rooks move, are played and taken back while the clock runs.   *)

UndoLines == {FoolsMate, CastleShort}

DoRetractableMove ==
    CallMakeMoveOf({l[Len(g.MoveHistory) + 1] : l \in followingIn(g, UndoLines)})

NextUndo == DoRetractableMove \/ DoUndoLastMove \/ DoStartTimer \/ Tick

SpecUndo == Init /\ [][NextUndo]_vars

----------------------------------------------------------------------------
(* The four operations that read or write the clock, together: the moves  *)
(* of a game that ends in mate, UndoLastMove, StartTimer and StopTimer, at *)
(* timestamps that never decrease.                                         *)

DoClockedMove ==
    CallMakeMoveOf({l[Len(g.MoveHistory) + 1] : l \in followingIn(g, ClockLines)})

NextLedger ==
    DoClockedMove \/ DoUndoLastMove \/ DoStartTimer \/ DoStopTimer \/ Tick

SpecLedger == Init /\ [][NextLedger]_vars

----------------------------------------------------------------------------
(* The AI poller.  AIManager.Start runs the ticks in a goroutine of its    *)
(* own, the calls of the user interface run in another, and neither the    *)
(* manager nor the interface takes a lock: between the moment a tick has   *)
(* selected its move and the moment it hands it to GameState.MakeMove, the *)
(* calls of the interface can run.  A tick is therefore two steps.         *)

PollLines == {FoolsMate, KnightNet}

\* the AI is configured before the first move of the game
beforeGame == Len(g.MoveHistory) = 0 /\ undos = 0 /\ poller.pc = "idle"

\* the checkbox "Enable AI"
DoSetEnabled ==
    \E enabled \in BOOLEAN :
        /\ beforeGame
        /\ aiManager' = SetEnabled(aiManager, enabled)
        /\ pre' = g
        /\ call' = [op |-> "SetEnabled", from |-> Nil, to |-> Nil,
                    result |-> InvalidMove, ok |-> TRUE]
        /\ UNCHANGED <<g, now, undos, poller, ui>>

\* what the poller read when the tick began
tickSeen == [enabled |-> aiManager.enabled, aiColor |-> aiManager.aiColor,
             turn |-> g.CurrentTurn, status |-> g.GameStatus]

\* a tick that submits nothing
tickPasses ==
    /\ poller' = [pc |-> "idle", move |-> Nil, seen |-> tickSeen]
    /\ call' = [op |-> "AITick", from |-> Nil, to |-> Nil,
                result |-> InvalidMove, ok |-> FALSE]

\* lines 81-84 and ChessAI.MakeMove up to the selection of the move
PollTick ==
    /\ poller.pc = "idle"
    /\ aiManager.ticking
    /\ onRecord(g, PollLines)
    /\ IF aiTurnDetected(aiManager, g)
       THEN \E moves \in {thinkMove(aiManager.ai, g)} :
                IF moves = {} THEN tickPasses
                ELSE \E mv \in moves :
                         /\ poller' = [pc |-> "submit",
                                       move |-> [From |-> mv.From, To |-> mv.To],
                                       seen |-> tickSeen]
                         /\ call' = [op |-> "AIThink", from |-> mv.From,
                                     to |-> mv.To, result |-> InvalidMove,
                                     ok |-> TRUE]
       ELSE tickPasses
    /\ pre' = g
    /\ UNCHANGED <<g, now, undos, aiManager, ui>>

\* lines 207-209 of ChessAI.MakeMove: the selected move goes to MakeMove
PollSubmit ==
    /\ poller.pc = "submit"
    /\ \E r \in {submitted(poller.move,
                            MakeMove(g, poller.move.From, poller.move.To, now))} :
           /\ g' = r.g
           /\ call' = [op |-> "AISubmit", from |-> r.from, to |-> r.to,
                       result |-> r.result, ok |-> r.ok]
    /\ pre' = g
    /\ poller' = [poller EXCEPT !.pc = "idle"]
    /\ UNCHANGED <<now, undos, aiManager, ui>>

\* the selector of the AI's colour
DoSelectAIColor ==
    \E color \in {WhitePlayer, BlackPlayer} :
        /\ beforeGame
        /\ aiManager' = SetAIColor(aiManager, color)
        /\ pre' = g
        /\ call' = [op |-> "SetAIColor", from |-> Nil, to |-> Nil,
                    result |-> InvalidMove, ok |-> TRUE]
        /\ UNCHANGED <<g, now, undos, poller, ui>>

\* the interface plays the next move of a line, for whichever side is to move
DoBoardMove ==
    CallMakeMoveOf({l[Len(g.MoveHistory) + 1] : l \in followingIn(g, PollLines)})

\* the button "Undo", pressed while the poller holds a selected move
DoUndoUnderTick == poller.pc = "submit" /\ DoUndoLastMove

NextPoll ==
    \/ DoSetEnabled \/ DoSelectAIColor \/ PollTick \/ PollSubmit
    \/ DoBoardMove \/ DoUndoUnderTick

SpecPoll == Init /\ [][NextPoll]_vars

----------------------------------------------------------------------------
(* Games with castles, and one with rook and king moves: castles that     *)
(* give check, stalemate, leave a check, or are made after the rook was    *)
(* taken, with moves taken back and the clock started and stopped in       *)
(* between.                                                                *)

CastleLines == {CastleShort, CastleLong, CastleCheck, CornerTaken, KnightNet,
                CastleStalemate, LoydStalemate}

DoCastleLineMove ==
    CallMakeMoveOf({l[Len(g.MoveHistory) + 1] : l \in followingIn(g, CastleLines)})

NextCastle ==
    DoCastleLineMove \/ DoUndoLastMove \/ DoStartTimer \/ DoStopTimer

SpecCastle == Init /\ [][NextCastle]_vars

----------------------------------------------------------------------------
(* Games that leave the board in a state no game of chess has: a king is   *)
(* taken, a pawn stands on its last rank.  Moves are requested by MakeMove *)
(* and by clicks, on the board and off it.                                 *)

EdgeLines == {SelfCheck, PawnRun}

DoEdgeMove ==
    CallMakeMoveOf({l[Len(g.MoveHistory) + 1] : l \in followingIn(g, EdgeLines)})

\* clicks on the two squares of the next move of a line, and off the board
DoEdgeClick ==
    \E pos \in UNION {{l[Len(g.MoveHistory) + 1].From, l[Len(g.MoveHistory) + 1].To} :
                         l \in followingIn(g, EdgeLines)} \cup {Pos(8, 0)} :
        \E r \in {SelectPosition(g, pos, now)} :
            /\ g' = r.g
            /\ pre' = g
            /\ call' = [op |-> IF r.moved THEN "SelectMove" ELSE "SelectPosition",
                        from |-> IF r.moved THEN g.SelectedPosition ELSE Nil,
                        to |-> pos, result |-> r.result, ok |-> r.ok]
            /\ UNCHANGED <<now, undos, aiManager, poller, ui>>

NextEdge == DoEdgeMove \/ DoEdgeClick

SpecEdge == Init /\ [][NextEdge]_vars

----------------------------------------------------------------------------
(* The ChessUI and its goroutines.  Three threads run: the event thread of *)
(* the interface (board clicks, the "Enable AI" checkbox, the "New Game"   *)
(* button), the clock-refresh goroutine of startTimer, and the poller of   *)
(* AIManager.Start.  timerChan and stopChan are unbuffered: a send blocks  *)
(* its thread until the goroutine that receives on the channel is in its   *)
(* select.  A thread blocked in a send is a position of that thread.       *)
(*   ui.thread:    "none", "ready", "setEnabled:Stop" (manager.go:104),    *)
(*                 "newGame:stopTimer" (ui.go:206 called from 211),        *)
(*                 "newGame:reset" (213-218), "newGame:Stop"               *)
(*                 (manager.go:104 called from ui.go:218),                 *)
(*                 "newGame:restart" (219-226)                             *)
(*   ui.refresher: "none", "select", "stopTimer" (ui.go:206 called from    *)
(*                 its own updateStatus), "exited"                         *)
(*   ui.timer:     the ticker ui.timer delivers ticks                      *)
(*   ui.polling:   the goroutine of AIManager.Start exists                 *)
(*   poller.pc:    "idle" (in its select), "submit", "callback",           *)
(*                 "stopTimer" (ui.go:206 called from the callback),       *)
(*                 "enter" (about to evaluate the operands of its select), *)
(*                 "nilTicker" (m.ticker.C was evaluated with m.ticker     *)
(*                 nil: the program has panicked)                          *)

UILines == {FoolsMate}

\* the number of times "New Game" is pressed in one run
MaxGames == 1

\* the program runs: the interface is built and no goroutine has panicked
running == ui.thread # "none" /\ poller.pc # "nilTicker"

uiCall(op, ok) ==
    [op |-> op, from |-> Nil, to |-> Nil, result |-> InvalidMove, ok |-> ok]

\* NewChessUI, ui.go:30-59, with the startTimer it ends on
NewChessUI ==
    /\ ui.thread = "none"
    /\ ui' = [ui EXCEPT !.thread = "ready", !.refresher = "select",
                        !.timer = TRUE]
    /\ g' = StartTimer(g, now)
    /\ pre' = g
    /\ call' = uiCall("NewChessUI", TRUE)
    /\ UNCHANGED <<now, undos, aiManager, poller>>

\* a move made on the board, for whichever side is to move
UIBoardMove ==
    /\ running /\ ui.thread = "ready"
    /\ CallMakeMoveOf({l[Len(g.MoveHistory) + 1] : l \in followingIn(g, UILines)})

\* the checkbox "Enable AI", ui.go:88-90: SetEnabled(true) launches the
\* poller; SetEnabled(false) runs Stop, which sets the ticker to nil and
\* then sends on stopChan
UISetEnabled ==
    \E enabled \in BOOLEAN :
        /\ running /\ ui.thread = "ready"
        /\ aiManager.enabled # enabled
        /\ aiManager' = SetEnabled(aiManager, enabled)
        /\ IF enabled
           THEN /\ ui' = [ui EXCEPT !.polling = TRUE]
                /\ poller' = Idle
           ELSE /\ ui' = [ui EXCEPT !.thread = IF aiManager.ticking
                                               THEN "setEnabled:Stop" ELSE @]
                /\ UNCHANGED poller
        /\ pre' = g
        /\ call' = uiCall("SetEnabled", TRUE)
        /\ UNCHANGED <<g, now, undos>>

\* the button "New Game", ui.go:210-211: stopTimer stops the clock of the
\* game and the ticker, and sends on timerChan
UINewGame ==
    /\ running /\ ui.thread = "ready"
    /\ ui.games < MaxGames
    /\ g' = StopTimer(g, now)
    /\ ui' = [ui EXCEPT !.thread = "newGame:stopTimer", !.timer = FALSE]
    /\ pre' = g
    /\ call' = uiCall("newGame", FALSE)
    /\ UNCHANGED <<now, undos, aiManager, poller>>

\* newGame, ui.go:213-218: the new GameState, and Stop of the old manager
UINewGameReset ==
    /\ running /\ ui.thread = "newGame:reset"
    /\ g' = NewGame(now)
    /\ aiManager' = Stop(aiManager)
    /\ ui' = [ui EXCEPT !.thread = IF aiManager.ticking THEN "newGame:Stop"
                                   ELSE "newGame:restart"]
    /\ pre' = g
    /\ call' = uiCall("newGame", FALSE)
    /\ UNCHANGED <<now, undos, poller>>

\* newGame, ui.go:219-226: the new manager, enabled when the checkbox is
\* checked, updateStatus on a game that is not over, and startTimer
UINewGameRestart ==
    /\ running /\ ui.thread = "newGame:restart"
    /\ aiManager' = IF aiManager.enabled THEN SetEnabled(NewAIManager, TRUE)
                    ELSE NewAIManager
    /\ poller' = Idle
    /\ g' = StartTimer(g, now)
    /\ ui' = [ui EXCEPT !.thread = "ready", !.refresher = "select",
                        !.timer = TRUE, !.polling = aiManager.enabled,
                        !.games = @ + 1]
    /\ pre' = g
    /\ call' = uiCall("newGame", TRUE)
    /\ UNCHANGED <<now, undos>>

\* a tick of ui.timer, ui.go:193-194: updateStatus, whose stopTimer on a
\* game that is over sends on the channel only this goroutine receives on
RefreshTick ==
    /\ running /\ ui.refresher = "select" /\ ui.timer
    /\ IF IsGameOver(g)
       THEN /\ g' = StopTimer(g, now)
            /\ ui' = [ui EXCEPT !.refresher = "stopTimer", !.timer = FALSE]
       ELSE UNCHANGED <<g, ui>>
    /\ pre' = g
    /\ call' = uiCall("updateStatus", ~IsGameOver(g))
    /\ UNCHANGED <<now, undos, aiManager, poller>>

\* ui.go:195-196: the clock-refresh goroutine receives from a thread that
\* is sending on timerChan, and returns
RefreshReturn ==
    /\ running /\ ui.refresher = "select"
    /\ \/ /\ ui.thread = "newGame:stopTimer"
          /\ ui' = [ui EXCEPT !.refresher = "exited", !.thread = "newGame:reset"]
          /\ UNCHANGED poller
       \/ /\ poller.pc = "stopTimer"
          /\ ui' = [ui EXCEPT !.refresher = "exited"]
          /\ poller' = [poller EXCEPT !.pc = "enter"]
    /\ UNCHANGED <<g, now, pre, call, undos, aiManager>>

\* a tick of the manager's ticker
UIPollTick == running /\ ui.polling /\ PollTick

\* ChessAI.MakeMove hands its move to GameState.MakeMove; manager.go:84-85
UIPollSubmit ==
    /\ running /\ poller.pc = "submit"
    /\ \E r \in {submitted(poller.move,
                            MakeMove(g, poller.move.From, poller.move.To, now))} :
           /\ g' = r.g
           /\ call' = [op |-> "AISubmit", from |-> r.from, to |-> r.to,
                       result |-> r.result, ok |-> r.ok]
           /\ poller' = [poller EXCEPT !.pc = IF r.ok THEN "callback" ELSE "enter"]
    /\ pre' = g
    /\ UNCHANGED <<now, undos, aiManager, ui>>

\* manager.go:87-90 and ui.go:47-53: the callback runs updateStatus in the
\* poller goroutine
UIPollCallback ==
    /\ running /\ poller.pc = "callback"
    /\ IF IsGameOver(g)
       THEN /\ g' = StopTimer(g, now)
            /\ ui' = [ui EXCEPT !.timer = FALSE]
            /\ poller' = [poller EXCEPT !.pc = "stopTimer"]
       ELSE /\ poller' = [poller EXCEPT !.pc = "enter"]
            /\ UNCHANGED <<g, ui>>
    /\ pre' = g
    /\ call' = uiCall("onMoveCallback", ~IsGameOver(g))
    /\ UNCHANGED <<now, undos, aiManager>>

\* manager.go:79-81: the goroutine comes back to its select and evaluates
\* m.ticker.C.  Stop writes m.ticker in the event thread with no
\* synchronisation before its send: the goroutine reads the nil, and
\* panics, or reads the ticker that was there before
UIPollEnter ==
    /\ running /\ poller.pc = "enter"
    /\ \E pc \in IF aiManager.ticking THEN {"idle"} ELSE {"nilTicker", "idle"} :
           poller' = [poller EXCEPT !.pc = pc]
    /\ UNCHANGED <<g, now, pre, call, undos, aiManager, ui>>

\* manager.go:93-94: the poller receives from the event thread that is
\* sending on stopChan in Stop, and returns
PollReturn ==
    /\ running /\ ui.polling /\ poller.pc = "idle"
    /\ ui.thread \in {"setEnabled:Stop", "newGame:Stop"}
    /\ ui' = [ui EXCEPT !.polling = FALSE,
                        !.thread = IF @ = "setEnabled:Stop" THEN "ready"
                                   ELSE "newGame:restart"]
    /\ UNCHANGED <<g, now, pre, call, undos, aiManager, poller>>

EventThread ==
    \/ NewChessUI \/ UIBoardMove \/ UISetEnabled
    \/ UINewGame \/ UINewGameReset \/ UINewGameRestart

Refresher == RefreshTick \/ RefreshReturn

Poller ==
    \/ UIPollTick \/ UIPollSubmit \/ UIPollCallback \/ UIPollEnter
    \/ PollReturn

NextUI == EventThread \/ Refresher \/ Poller

SpecUI == Init /\ [][NextUI]_vars

----------------------------------------------------------------------------
(* Properties.                                                             *)

\* the last call ran MakeMove, directly or through SelectPosition
ranMakeMove == call.op \in {"MakeMove", "SelectMove"}

\* ... and MakeMove did not return InvalidMove
moveSucceeded == ranMakeMove /\ call.result # InvalidMove

legalDestinations(gs, sq) == SeqToSet(GetPossibleMoves(gs, sq))

\* the side to move of gs has no move in GetPossibleMoves
noLegalMove(gs) ==
    \A p \in Squares :
        ownPiece(gs.Board[p.Y][p.X], gs.CurrentTurn)
            => GetPossibleMoves(gs, p) = << >>

\* some king of player stands on a square an opposing piece can move to
kingAttacked(board, player) ==
    LET kingPiece == IF player = WhitePlayer THEN WhiteKing ELSE BlackKing
    IN  \E k \in Squares :
            /\ board[k.Y][k.X] = kingPiece
            /\ \E p \in Squares :
                   /\ enemyPiece(board[p.Y][p.X], player)
                   /\ k \in SeqToSet(GetPieceMoves(board, p))

kings(board, kingPiece) == {p \in Squares : board[p.Y][p.X] = kingPiece}

\* C1: once the game has ended (WhiteWon, BlackWon or GameDraw), a MakeMove
\* call returns InvalidMove and leaves the board unchanged.
C1_NoMoveAfterGameOver ==
    (ranMakeMove /\ pre.GameStatus # InProgress)
        => (call.result = InvalidMove /\ g.Board = pre.Board)

\* C2: MakeMove(from, to) returns InvalidMove whenever to is not among
\* GetPossibleMoves(from) of the state it is called in, whether called
\* directly or through SelectPosition.
C2_OnlyPossibleMovesAccepted ==
    (ranMakeMove /\ call.to \notin legalDestinations(pre, call.from))
        => call.result = InvalidMove

\* C3: a MakeMove that returns InvalidMove leaves the whole GameState as it
\* was: board, side to move, history, the six has-moved flags, status, both
\* clocks, the timer-active flag and the last clock sample.
C3_InvalidMoveChangesNothing ==
    (call.op = "MakeMove" /\ call.result = InvalidMove) => g = pre

\* an invalid request reached MakeMove while the clock was running and time
\* had passed since its last sample
C3_InvalidMoveWhileClockRuns ==
    /\ call.op = "MakeMove" /\ call.result = InvalidMove
    /\ pre.TimerActive /\ now > pre.LastMoveTime

\* C4: for every square sq and every destination d of GetPossibleMoves(sq),
\* applying sq->d as MakeMove applies it (rook relocation of a two-square
\* king move included) leaves the mover's king unattacked.
C4_PossibleMovesKeepKingSafe ==
    \A sq \in Squares :
        \A d \in legalDestinations(g, sq) :
            ~kingAttacked(applyMove(g.Board, sq, d), g.CurrentTurn)

\* the white king on e1 is offered the castle to g1 while its pseudo-move to
\* f1 has been filtered out
C4_CastleOfferedStepFiltered ==
    /\ g.CurrentTurn = WhitePlayer
    /\ Pos(6, 0) \in legalDestinations(g, Pos(4, 0))
    /\ Pos(5, 0) \in SeqToSet(GetPieceMovesWithGameState(g.Board, Pos(4, 0), g))
    /\ Pos(5, 0) \notin legalDestinations(g, Pos(4, 0))

\* C5: a successful MakeMove immediately followed by UndoLastMove restores
\* all 64 squares and the side to move to what they were before the move.
C5_UndoRestoresBoardAndTurn ==
    [][(moveSucceeded /\ call'.op = "UndoLastMove")
          => (g'.Board = pre.Board /\ g'.CurrentTurn = pre.CurrentTurn)]_vars

\* C6: the board always holds exactly one white king and one black king.
C6_OneKingEach ==
    /\ Cardinality(kings(g.Board, WhiteKing)) = 1
    /\ Cardinality(kings(g.Board, BlackKing)) = 1

\* C7: whenever the side to move has no move in GetPossibleMoves, the game
\* is no longer InProgress.
C7_NoMoveMeansGameOver ==
    noLegalMove(g) => g.GameStatus # InProgress

\* C8: a successful MakeMove returns Stalemate and records GameDraw (and
\* IsStalemate holds of the new position) exactly when the new side to move
\* is not in check and has no legal move.
C8_StalemateIffNoLegalMove ==
    moveSucceeded =>
        LET stuck == ~IsInCheck(g.Board, g.CurrentTurn) /\ noLegalMove(g)
        IN  /\ IsStalemate(g.Board, g.CurrentTurn) <=> stuck
            /\ (call.result = Stalemate /\ g.GameStatus = GameDraw) <=> stuck

\* C9: a successful MakeMove returns Checkmate and records the win of the
\* side that moved exactly when the new side to move is in check and has no
\* move in GetPossibleMoves (castling destinations included).
C9_CheckmateIffNoPossibleMove ==
    moveSucceeded =>
        LET mated  == IsInCheck(g.Board, g.CurrentTurn) /\ noLegalMove(g)
            winner == IF g.CurrentTurn = WhitePlayer THEN BlackWon ELSE WhiteWon
        IN  (call.result = Checkmate /\ g.GameStatus = winner) <=> mated

\* the request of the last call was a castle that GetPossibleMoves offered:
\* the king of the side to move on its origin square, king and rook flags
\* unset, the squares between them empty, the two-square destination offered
castleOffered(gs, from, to) ==
    LET white == gs.CurrentTurn = WhitePlayer
        row   == IF white THEN 0 ELSE 7
        kingMoved == IF white THEN gs.WhiteKingMoved ELSE gs.BlackKingMoved
        rookMoved == IF to.X = 6
                     THEN (IF white THEN gs.WhiteRookHMoved ELSE gs.BlackRookHMoved)
                     ELSE (IF white THEN gs.WhiteRookAMoved ELSE gs.BlackRookAMoved)
        between == IF to.X = 6 THEN {5, 6} ELSE {1, 2, 3}
    IN  /\ from = Pos(4, row)
        /\ to \in {Pos(6, row), Pos(2, row)}
        /\ gs.Board[row][4] = (IF white THEN WhiteKing ELSE BlackKing)
        /\ ~kingMoved /\ ~rookMoved
        /\ \A x \in between : gs.Board[row][x] = Empty
        /\ to \in legalDestinations(gs, from)

\* the board and the Move record after the castle of the last call
castleDone ==
    LET white   == pre.CurrentTurn = WhitePlayer
        row     == call.from.Y
        crossed == IF call.to.X = 6 THEN 5 ELSE 3
        corner  == IF call.to.X = 6 THEN 7 ELSE 0
    IN  /\ g.Board[row][call.to.X] = (IF white THEN WhiteKing ELSE BlackKing)
        /\ g.Board[row][crossed] = (IF white THEN WhiteRook ELSE BlackRook)
        /\ g.Board[row][corner] = Empty
        /\ g.Board[row][4] = Empty
        /\ Len(g.MoveHistory) = Len(pre.MoveHistory) + 1
        /\ g.MoveHistory[Len(g.MoveHistory)].Castling = TRUE

played(l, k) ==
    /\ undos = 0
    /\ Len(g.MoveHistory) = k
    /\ k <= Len(l)
    /\ \A i \in 1..k : /\ g.MoveHistory[i].From = l[i].From
                       /\ g.MoveHistory[i].To = l[i].To

\* C11: from NewGame, the first three MakeMove calls of fool's mate
\* (f2-f3, e7-e5, g2-g4) succeed and leave the game InProgress; the fourth
\* (d8-h4) returns Checkmate, GameStatus becomes BlackWon and GetGameStatus
\* reports that Black won.
C11_FoolsMate ==
    \A k \in 1..4 :
        played(FoolsMate, k - 1) =>
            \A r \in {MakeMove(g, FoolsMate[k].From, FoolsMate[k].To, now)} :
                IF k < 4
                THEN /\ r.result \notin {InvalidMove, Checkmate, Stalemate}
                     /\ r.g.GameStatus = InProgress
                ELSE /\ r.result = Checkmate
                     /\ r.g.GameStatus = BlackWon
                     /\ GetGameStatus(r.g) = "Black won by checkmate"

\* the four moves of fool's mate have just been played and the last call
\* returned Checkmate
C11_FoolsMatePlayed ==
    /\ played(FoolsMate, 4)
    /\ call.op = "MakeMove" /\ call.result = Checkmate
    /\ call.to = FoolsMate[4].To

\* C12: in the state NewGame returns, GetPossibleMoves of the white pawn
\* e2 is exactly e3 and e4, and GetPossibleMoves of the white knight b1 is
\* exactly a3 and c3.
C12_OpeningMoves ==
    (g = NewGame(g.LastMoveTime)) =>
        /\ Len(GetPossibleMoves(g, Pos(4, 1))) = 2
        /\ legalDestinations(g, Pos(4, 1)) = {Pos(4, 2), Pos(4, 3)}
        /\ Len(GetPossibleMoves(g, Pos(1, 0))) = 2
        /\ legalDestinations(g, Pos(1, 0)) = {Pos(0, 2), Pos(2, 2)}

\* the game is as NewGame left it, a first request has been refused, and
\* the pawn e2 and the knight b1 have moves
C12_FreshGame ==
    /\ g = NewGame(g.LastMoveTime)
    /\ call.op = "MakeMove"
    /\ GetPossibleMoves(g, Pos(4, 1)) # << >>
    /\ GetPossibleMoves(g, Pos(1, 0)) # << >>

\* the last call was ChessAI.MakeMove and it submitted a move
aiSubmitted == call.op = "AIMove" /\ call.from # Nil

\* C13: at every difficulty, the move the AI selects and submits has its
\* destination in GetPossibleMoves(move.From) of the state it was selected
\* in, and moves a piece of the AI's colour, whose turn it is.
C13_AIMoveIsLegal ==
    aiSubmitted =>
        /\ call.to \in legalDestinations(pre, call.from)
        /\ pre.CurrentTurn = aiManager.aiColor
        /\ ownPiece(pre.Board[call.from.Y][call.from.X], aiManager.aiColor)

\* the AI has submitted a move in a position where its king was attacked
C13_AIMovedOutOfCheck ==
    /\ aiSubmitted /\ call.ok
    /\ IsInCheck(pre.Board, pre.CurrentTurn)

\* C14: when the AI's colour has no legal move, or it is not its turn,
\* ChessAI.MakeMove returns false, submits nothing and leaves the GameState
\* unchanged.
C14_AIWithoutMove ==
    (call.op = "AIMove"
        /\ (pre.CurrentTurn # aiManager.aiColor \/ noLegalMove(pre)))
        => (~call.ok /\ call.from = Nil /\ g = pre)

\* the AI was called on its turn in a position where it has no legal move
C14_AIMated ==
    /\ call.op = "AIMove"
    /\ pre.CurrentTurn = aiManager.aiColor
    /\ noLegalMove(pre)

\* the fields UndoLastMove never writes: the six has-moved flags, the two
\* clocks, the timer-active flag and the clock sample
sameFlagsAndClocks(a, b) ==
    /\ a.WhiteKingMoved = b.WhiteKingMoved
    /\ a.WhiteRookAMoved = b.WhiteRookAMoved
    /\ a.WhiteRookHMoved = b.WhiteRookHMoved
    /\ a.BlackKingMoved = b.BlackKingMoved
    /\ a.BlackRookAMoved = b.BlackRookAMoved
    /\ a.BlackRookHMoved = b.BlackRookHMoved
    /\ a.WhitePlayerTime = b.WhitePlayerTime
    /\ a.BlackPlayerTime = b.BlackPlayerTime
    /\ a.TimerActive = b.TimerActive
    /\ a.LastMoveTime = b.LastMoveTime

\* C15: UndoLastMove on an empty move history returns false and changes
\* nothing: board, side to move, status, flags and clocks are as before.
C15_UndoOfNothing ==
    (call.op = "UndoLastMove" /\ Len(pre.MoveHistory) = 0)
        => (~call.ok /\ g = pre)

\* UndoLastMove was called on an empty history with the clock running and a
\* clock already debited
C15_UndoOnEmptyHistory ==
    /\ call.op = "UndoLastMove"
    /\ Len(pre.MoveHistory) = 0
    /\ pre.TimerActive
    /\ pre.WhitePlayerTime < InitialTime

\* C16: UndoLastMove on a non-empty history returns true, removes exactly
\* the last Move record, flips the side to move, sets GameStatus to
\* InProgress even when the game had ended, and leaves the six has-moved
\* flags, both clocks, the timer-active flag and the clock sample unchanged.
C16_UndoPopsOneRecord ==
    (call.op = "UndoLastMove" /\ Len(pre.MoveHistory) > 0) =>
        /\ call.ok
        /\ Len(g.MoveHistory) = Len(pre.MoveHistory) - 1
        /\ \A i \in 1..Len(g.MoveHistory) : g.MoveHistory[i] = pre.MoveHistory[i]
        /\ g.CurrentTurn \in {WhitePlayer, BlackPlayer}
        /\ g.CurrentTurn # pre.CurrentTurn
        /\ g.GameStatus = InProgress
        /\ sameFlagsAndClocks(g, pre)

\* a game that had ended, with the clock running and debited, was taken back
C16_UndoOfFinishedGame ==
    /\ call.op = "UndoLastMove" /\ call.ok
    /\ pre.GameStatus # InProgress
    /\ pre.TimerActive
    /\ pre.WhitePlayerTime < InitialTime \/ pre.BlackPlayerTime < InitialTime

\* positions outside the board, on every side of it
OffBoard == {Pos(-1, 0), Pos(8, 0), Pos(0, -1), Pos(0, 8), Pos(8, 8), Pos(-1, -1)}

\* pos is on the board and holds a piece of the side to move
holdsOwnPiece(gs, pos) ==
    IF IsValidBoardPosition(pos)
    THEN ownPiece(gs.Board[pos.Y][pos.X], gs.CurrentTurn)
    ELSE FALSE

\* C17: GetPossibleMoves(sq) is empty, and is computed without failing and
\* without writing the GameState, when sq is outside the board, when sq is
\* empty, and when sq holds a piece of the side not to move.
C17_NothingToMove ==
    \A pos \in Squares \cup OffBoard :
        ~holdsOwnPiece(g, pos) => GetPossibleMoves(g, pos) = << >>

\* Black is to move and the white knight on f3 has squares to go to
C17_WrongSideCouldMove ==
    /\ g.CurrentTurn = BlackPlayer
    /\ g.Board[2][5] = WhiteKnight
    /\ GetPieceMoves(g.Board, Pos(5, 2)) # << >>
    /\ GetPossibleMoves(g, Pos(5, 2)) = << >>

\* the clock of player in the GameState gs
clockOf(gs, player) ==
    IF player = WhitePlayer THEN gs.WhitePlayerTime ELSE gs.BlackPlayerTime

\* C18: with the clock active, every MakeMove that does not return
\* InvalidMove, a mating or stalemating move included, subtracts the time
\* elapsed since the last clock sample from the clock of the side that
\* moved, leaves the other clock unchanged and records a new clock sample;
\* with the clock inactive a successful MakeMove changes neither clock.
C18_MoveDebitsMover ==
    \A m \in Inputs(g, ClockLines) :
        \A r \in {MakeMove(g, m.From, m.To, now)} :
            r.result # InvalidMove =>
                IF g.TimerActive
                THEN /\ clockOf(r.g, g.CurrentTurn)
                            = clockOf(g, g.CurrentTurn) - (now - g.LastMoveTime)
                     /\ clockOf(r.g, 1 - g.CurrentTurn)
                            = clockOf(g, 1 - g.CurrentTurn)
                     /\ r.g.LastMoveTime = now
                ELSE /\ r.g.WhitePlayerTime = g.WhitePlayerTime
                     /\ r.g.BlackPlayerTime = g.BlackPlayerTime

\* the wall-clock times from now on
Later == now..MaxTime

\* C19: StopTimer on an active clock subtracts the time elapsed since the
\* last clock sample from the clock of the side to move and clears the
\* active flag, changing nothing else; StopTimer on an inactive clock and
\* StartTimer on an active clock change nothing, so that a second stop
\* debits nothing more and a second start does not move the sample;
\* GetRemainingTime reads the clock of the player and changes no state.
C19_StopAndStart ==
    /\ \A r \in {StopTimer(g, now)} :
           IF g.TimerActive
           THEN /\ r = [g EXCEPT !.WhitePlayerTime = r.WhitePlayerTime,
                                 !.BlackPlayerTime = r.BlackPlayerTime,
                                 !.TimerActive = FALSE]
                /\ clockOf(r, g.CurrentTurn)
                       = clockOf(g, g.CurrentTurn) - (now - g.LastMoveTime)
                /\ clockOf(r, 1 - g.CurrentTurn) = clockOf(g, 1 - g.CurrentTurn)
                /\ \A t \in Later : StopTimer(r, t) = r
           ELSE r = g
    /\ \A r \in {StartTimer(g, now)} :
           /\ g.TimerActive => r = g
           /\ \A t \in Later : StartTimer(r, t) = r
    /\ GetRemainingTime(g, WhitePlayer) = g.WhitePlayerTime
    /\ GetRemainingTime(g, BlackPlayer) = g.BlackPlayerTime

\* StopTimer has stopped a running clock and charged the side to move
C19_ClockStoppedAndCharged ==
    /\ call.op = "StopTimer"
    /\ pre.TimerActive /\ ~g.TimerActive
    /\ clockOf(g, pre.CurrentTurn) < clockOf(pre, pre.CurrentTurn)

\* C20, a call on a square holding a piece of the side to move: the
\* selection is armed at that square, true is returned, nothing else changes
selectArms(pos, r) ==
    /\ r.ok /\ ~r.moved
    /\ r.g = [g EXCEPT !.SelectedPosition = pos]

\* C20, a call on another square of the board while a selection is armed:
\* MakeMove(selection, square) is attempted, true is returned iff its result
\* is not InvalidMove, and the selection is cleared either way
selectMoves(pos, r, mv) ==
    /\ r.moved
    /\ r.ok = (mv.result # InvalidMove)
    /\ r.result = mv.result
    /\ r.g = [mv.g EXCEPT !.SelectedPosition = Nil]

\* C20, a call off the board, or on a square that is not the mover's with no
\* selection armed: false is returned, the selection is cleared, the board
\* is unchanged
selectRefuses(r) ==
    /\ ~r.ok /\ ~r.moved
    /\ r.g.SelectedPosition = Nil
    /\ r.g.Board = g.Board

\* C20: the SelectPosition protocol, for every position offered in every
\* reachable state: an own piece arms the selection; another on-board
\* square with a selection armed attempts the move and clears the
\* selection; anything else returns false with the selection cleared.
C20_SelectProtocol ==
    \A pos \in Squares \cup OffBoard :
        \A r \in {SelectPosition(g, pos, now)} :
            IF holdsOwnPiece(g, pos) THEN selectArms(pos, r)
            ELSE IF IsValidBoardPosition(pos) /\ g.SelectedPosition # Nil
            THEN selectMoves(pos, r, MakeMove(g, g.SelectedPosition, pos, now))
            ELSE selectRefuses(r)

\* a selection was armed, the move to the square clicked next was refused,
\* and the selection is gone
C20_RefusedMoveClearsSelection ==
    /\ call.op = "SelectMove" /\ ~call.ok
    /\ pre.SelectedPosition # Nil
    /\ g.SelectedPosition = Nil

\* what the poller read when its tick began allows a move: the AI was
\* enabled, its colour was to move and the game was not over
tickWasAIsTurn ==
    /\ poller.seen.enabled
    /\ poller.seen.turn = poller.seen.aiColor
    /\ poller.seen.status = InProgress

\* C21: a tick of the AI poller submits at most one move, and submits one
\* only if, when the tick began, the AI was enabled, it was the AI colour's
\* turn and the game was not over; a tick that submits nothing, and the
\* part of a tick before the submission, leave the GameState as it was.
C21_TickSubmitsOnAITurn ==
    /\ (poller.pc = "submit" \/ call.op = "AISubmit") => tickWasAIsTurn
    /\ call.op \in {"AITick", "AIThink"} => g = pre
    /\ call.op = "AISubmit" =>
           /\ Len(g.MoveHistory) <= Len(pre.MoveHistory) + 1
           /\ poller.pc = "idle"

\* a tick has submitted a move that MakeMove accepted
C21_TickMoved ==
    /\ call.op = "AISubmit" /\ call.ok
    /\ Len(g.MoveHistory) = Len(pre.MoveHistory) + 1

\* C22: the AI's turn is atomic with respect to the calls of the interface:
\* while the poller holds the move it selected no MakeMove, SelectPosition
\* or UndoLastMove call runs, so the move it submits is a legal move of the
\* state it is applied to.
C22_AITurnIsAtomic ==
    /\ poller.pc = "submit" => call.op = "AIThink"
    /\ call.op = "AISubmit" => call.to \in legalDestinations(pre, call.from)

\* the Move record appended by the last call
lastRecord == g.MoveHistory[Len(g.MoveHistory)]

\* the king of the last record went two files to the side
twoSquareKingMove(m) ==
    /\ m.Piece \in {WhiteKing, BlackKing}
    /\ (m.To.X - m.From.X = 2 \/ m.From.X - m.To.X = 2)

\* C23: the result code of a successful MakeMove follows the priority
\* Checkmate > Stalemate > Check > Castling > ValidMove, so that a castle
\* giving check returns Check and a mating one Checkmate; the Move record
\* has Castling exactly for a two-square king move, Check exactly when the
\* new side to move is in check, and Checkmate exactly when Checkmate is
\* returned.
C23_ResultPriority ==
    (call.op = "MakeMove" /\ call.ok) =>
        /\ lastRecord.Castling <=> twoSquareKingMove(lastRecord)
        /\ lastRecord.Check <=> IsInCheck(g.Board, g.CurrentTurn)
        /\ lastRecord.Checkmate <=> call.result = Checkmate
        /\ lastRecord.Checkmate => lastRecord.Check
        /\ call.result =
               (IF lastRecord.Checkmate THEN Checkmate
                ELSE IF IsStalemate(g.Board, g.CurrentTurn) THEN Stalemate
                ELSE IF lastRecord.Check THEN Check
                ELSE IF lastRecord.Castling THEN Castling
                ELSE ValidMove)

\* a castle has given check: Check is returned, the record has both flags
C23_CastleGaveCheck ==
    /\ call.op = "MakeMove" /\ call.result = Check
    /\ lastRecord.Castling /\ lastRecord.Check /\ ~lastRecord.Checkmate

\* the number of pieces of player on the board
pieceCount(board, player) ==
    Cardinality({p \in Squares : ownPiece(board[p.Y][p.X], player)})

\* the rook of player stands on the corner a castle toward file toX uses
rookOnCorner(board, player, toX) ==
    board[IF player = WhitePlayer THEN 0 ELSE 7][IF toX = 6 THEN 7 ELSE 0]
        = (IF player = WhitePlayer THEN WhiteRook ELSE BlackRook)

\* C24: every successful MakeMove leaves the number of pieces of the mover
\* unchanged and removes at most one opposing piece, the one that stood on
\* the destination and is recorded as Captured; a castle is offered and
\* executed only when a rook of the king's colour stands on the corner, so
\* that castling creates no rook and deletes nothing from the corner.
C24_PieceConservation ==
    /\ (call.op = "MakeMove" /\ call.ok) =>
           /\ pieceCount(g.Board, pre.CurrentTurn)
                  = pieceCount(pre.Board, pre.CurrentTurn)
           /\ pieceCount(g.Board, 1 - pre.CurrentTurn)
                  = pieceCount(pre.Board, 1 - pre.CurrentTurn)
                    - (IF pre.Board[call.to.Y][call.to.X] = Empty THEN 0 ELSE 1)
           /\ lastRecord.Captured = pre.Board[call.to.Y][call.to.X]
           /\ twoSquareKingMove(lastRecord)
                  => rookOnCorner(pre.Board, pre.CurrentTurn, call.to.X)
    /\ \A row \in {0, 7} : \A toX \in {2, 6} :
           castleOffered(g, Pos(4, row), Pos(toX, row))
               => rookOnCorner(g.Board, g.CurrentTurn, toX)

\* the six has-moved flags of gs, in a fixed order
movedFlags(gs) ==
    << gs.WhiteKingMoved, gs.WhiteRookAMoved, gs.WhiteRookHMoved,
       gs.BlackKingMoved, gs.BlackRookAMoved, gs.BlackRookHMoved >>

\* the flag a move of piece from the square from has to set, 0 if none
flagOfMove(piece, from) ==
    CASE piece = WhiteKing -> 1
      [] piece = WhiteRook /\ from = Pos(0, 0) -> 2
      [] piece = WhiteRook /\ from = Pos(7, 0) -> 3
      [] piece = BlackKing -> 4
      [] piece = BlackRook /\ from = Pos(0, 7) -> 5
      [] piece = BlackRook /\ from = Pos(7, 7) -> 6
      [] OTHER -> 0

\* the flags that forbid the castle of player toward file toX
castleSpent(gs, player, toX) ==
    \/ movedFlags(gs)[IF player = WhitePlayer THEN 1 ELSE 4]
    \/ movedFlags(gs)[(IF player = WhitePlayer THEN 1 ELSE 4)
                       + (IF toX = 6 THEN 2 ELSE 1)]

\* C25: a successful move of a king sets the king-moved flag of its colour
\* and a successful move of a rook from its corner sets that rook's flag;
\* a flag that is set stays set through MakeMove, UndoLastMove and the
\* timers; GetPossibleMoves offers no two-square king move toward a side
\* whose king flag or rook flag is set.
C25_CastlingRightsMonotone ==
    /\ (call.op = "MakeMove" /\ call.ok
           /\ flagOfMove(lastRecord.Piece, lastRecord.From) # 0)
           => movedFlags(g)[flagOfMove(lastRecord.Piece, lastRecord.From)]
    /\ \A i \in 1..6 : movedFlags(pre)[i] => movedFlags(g)[i]
    /\ \A p \in Squares :
           (g.Board[p.Y][p.X] \in {WhiteKing, BlackKing}) =>
               \A to \in legalDestinations(g, p) :
                   (to.X - p.X = 2 \/ p.X - to.X = 2)
                       => ~castleSpent(g, g.CurrentTurn, to.X)

\* a king move was taken back: the king stands on its origin square again
\* and its flag is still set
C25_FlagSurvivesUndo ==
    /\ call.op = "UndoLastMove" /\ call.ok
    /\ g.Board[0][4] = WhiteKing
    /\ pre.WhiteKingMoved /\ g.WhiteKingMoved

\* the castle of the side to move toward file toX, as the code decides it:
\* king and rook flags unset, the squares between king and rook empty, and
\* the king not attacked on its destination once it is moved there
castleEligible(gs, row, toX) ==
    /\ ~castleSpent(gs, gs.CurrentTurn, toX)
    /\ \A x \in (IF toX = 6 THEN {5, 6} ELSE {1, 2, 3}) : gs.Board[row][x] = Empty
    /\ ~IsInCheck(movePiece(gs.Board, Pos(4, row), Pos(toX, row)), gs.CurrentTurn)

\* the king of the side to move stands on its origin square
kingAtHome(gs, row) ==
    /\ row = (IF gs.CurrentTurn = WhitePlayer THEN 0 ELSE 7)
    /\ gs.Board[row][4] = (IF gs.CurrentTurn = WhitePlayer THEN WhiteKing ELSE BlackKing)

\* C26: GetPossibleMoves offers a castle exactly when the has-moved flags
\* are unset, the squares between king and rook are empty and the
\* destination is not attacked after the simulated king move; whether the
\* king is in check, or the square it crosses attacked, plays no part.
C26_CastleEligibility ==
    \A row \in {0, 7} : \A toX \in {2, 6} :
        kingAtHome(g, row) =>
            (Pos(toX, row) \in legalDestinations(g, Pos(4, row))
                <=> castleEligible(g, row, toX))

\* a castle was offered and executed while the king was in check
C26_CastledOutOfCheck ==
    /\ call.op = "MakeMove" /\ call.ok
    /\ twoSquareKingMove(lastRecord)
    /\ IsInCheck(pre.Board, pre.CurrentTurn)
    /\ call.to \in legalDestinations(pre, call.from)

\* some legal move of the side to move in gs is answered Checkmate
mateAvailable(gs, t) ==
    \E p \in Squares :
        \E to \in legalDestinations(gs, p) :
            MakeMove(gs, p, to, t).result = Checkmate

\* C27: at hard difficulty, as AIManager builds the ChessAI, a candidate that
\* checkmates the opponent outscores the others, so whenever a legal move of
\* the AI checkmates, the move the AI plays is a checkmating move.
C27_HardPlaysMate ==
    (aiSubmitted /\ aiManager.ai.difficulty = 3 /\ mateAvailable(pre, now))
        => call.result = Checkmate

\* the move from-to of the side to move in gs puts a queen on a square that
\* a piece of the other side attacks after the move, without capturing a
\* piece worth 600 or more
queenLeftHanging(gs, from, to) ==
    /\ isQueen(gs.Board[from.Y][from.X])
    /\ isPositionUnderAttack(movePiece(gs.Board, from, to), to, gs.CurrentTurn)
    /\ PieceValues(gs.Board[to.Y][to.X]) < 600

\* the side to move in gs has a legal move that does not leave a queen
\* hanging, and so scores 0 or more
soundMoveAvailable(gs) ==
    \E p \in Squares :
        \E to \in legalDestinations(gs, p) : ~queenLeftHanging(gs, p, to)

\* C28: at easy difficulty, as AIManager builds the ChessAI, a queen move to
\* a square attacked by an opposing piece that captures nothing worth 600
\* or more scores negative, so the AI never plays one while some other
\* legal move scores 0 or more.
C28_EasyKeepsQueen ==
    (aiSubmitted /\ aiManager.ai.difficulty = 1 /\ soundMoveAvailable(pre))
        => ~queenLeftHanging(pre, call.from, call.to)

\* the ChessAI of the manager is set to difficulty d and is to move in a
\* position of the recorded games
aiToMove(d) ==
    /\ aiManager.ai # NoAI
    /\ aiManager.ai.difficulty = d
    /\ g.CurrentTurn = aiManager.aiColor
    /\ onRecord(g, AILines)

\* the candidates are listed square by square, rank by rank from (0,0), and
\* for one square in the order of GetPossibleMoves
inScanOrder(gs, moves) ==
    /\ \A i \in 1..(Len(moves) - 1) :
           moves[i].From.Y * 8 + moves[i].From.X
               <= moves[i + 1].From.Y * 8 + moves[i + 1].From.X
    /\ \A p \in Squares :
           holdsOwnPiece(gs, p) =>
               \E ofP \in {SelectSeq(moves, LAMBDA mv : mv.From = p)} :
                   /\ Len(ofP) = Len(GetPossibleMoves(gs, p))
                   /\ \A k \in 1..Len(ofP) : ofP[k].To = GetPossibleMoves(gs, p)[k]

\* best is the candidate of the highest score, and the first of that score
firstOfHighest(moves, scored, best) ==
    \E i \in 1..Len(moves) :
        /\ moves[i].From = best.From /\ moves[i].To = best.To
        /\ \A j \in 1..Len(moves) :
               \A sj \in {scored[j]} :
                   /\ sj.Score <= best.Score
                   /\ j < i => sj.Score < best.Score
                   /\ j = i => sj.Score = best.Score

\* C29: hard difficulty is deterministic: in a given GameState it selects
\* one move, the candidate of maximal score and, among candidates of equal
\* maximal score, the first in enumeration order (squares rank by rank from
\* (0,0), destinations in GetPossibleMoves order).
C29_HardIsDeterministic ==
    aiToMove(3) =>
        \A moves \in {getAllPossibleMoves(g, g.CurrentTurn)} :
            /\ inScanOrder(g, moves)
            /\ Len(moves) > 0 =>
                   /\ Cardinality(getHardMove(aiManager.ai, g, moves)) = 1
                   /\ Cardinality(AIMakeMove(aiManager.ai, g, now)) = 1
                   /\ \A best \in getHardMove(aiManager.ai, g, moves) :
                          firstOfHighest(moves,
                                         hardScored(aiManager.ai, g, moves), best)

\* the hard AI has played the first of several candidates of the highest
\* score
C29_TieBrokenByOrder ==
    /\ aiSubmitted /\ aiManager.ai.difficulty = 3
    /\ \E moves \in {getAllPossibleMoves(pre, pre.CurrentTurn)} :
           \E best \in getHardMove(aiManager.ai, pre, moves) :
               /\ best.From = call.from /\ best.To = call.to
               /\ \E j \in 1..Len(moves) :
                      /\ moves[j].From # best.From \/ moves[j].To # best.To
                      /\ hardScored(aiManager.ai, pre, moves)[j].Score = best.Score

\* sorted holds the candidates of scored, each once, by non-increasing score
sortedByScore(scored, sorted) ==
    /\ Len(sorted) = Len(scored)
    /\ SeqToSet(sorted) = SeqToSet(scored)
    /\ \A i \in 1..(Len(sorted) - 1) : sorted[i].Score >= sorted[i + 1].Score

\* played is one of the first min(3, n) entries of sorted, every one of
\* which can be played
amongFirstThree(sorted, chosen) ==
    /\ chosen = {sorted[i] : i \in 1..(IF Len(sorted) < 3 THEN Len(sorted) ELSE 3)}
    /\ \A mv \in chosen :
           Cardinality({j \in 1..Len(sorted) : sorted[j].Score > mv.Score}) <= 2
    /\ Len(sorted) < 3 => chosen = SeqToSet(sorted)

\* C30: at medium difficulty the scored candidates are put in the order of
\* non-increasing score and the move played is one of the first min(3, n)
\* of them: at most two candidates score strictly higher than the move
\* played, and with fewer than three candidates any of them may be played.
C30_MediumPlaysTopThree ==
    aiToMove(2) =>
        \A moves \in {getAllPossibleMoves(g, g.CurrentTurn)} :
            Len(moves) > 0 =>
                \A scored \in {mediumScored(aiManager.ai, g, moves)} :
                    \A sorted \in {sortMovesByScore(scored)} :
                        /\ sortedByScore(scored, sorted)
                        /\ amongFirstThree(sorted,
                               getMediumMove(aiManager.ai, g, moves))
                        /\ {[from |-> r.from, to |-> r.to] :
                                r \in AIMakeMove(aiManager.ai, g, now)}
                             = {[from |-> mv.From, to |-> mv.To] :
                                   mv \in getMediumMove(aiManager.ai, g, moves)}

\* the medium AI has played a move that exactly two candidates outscore
C30_ThirdBestPlayed ==
    /\ aiSubmitted /\ aiManager.ai.difficulty = 2
    /\ \E moves \in {getAllPossibleMoves(pre, pre.CurrentTurn)} :
           \E sorted \in {sortMovesByScore(mediumScored(aiManager.ai, pre, moves))} :
               /\ Len(sorted) > 3
               /\ sorted[3].From = call.from /\ sorted[3].To = call.to
               /\ sorted[2].Score > sorted[3].Score

\* the medium AI is to move with fewer than three candidates
C30_FewCandidates ==
    aiToMove(2) /\ Len(getAllPossibleMoves(g, g.CurrentTurn)) \in 1..2

\* the side to move after a history of n records
sideAfter(n) == IF n % 2 = 0 THEN WhitePlayer ELSE BlackPlayer

\* b is a with k records more (k > 0) or -k records fewer (k < 0), the
\* records they share being the same
historyGrew(a, b, k) ==
    /\ Len(b.MoveHistory) = Len(a.MoveHistory) + k
    /\ \A i \in 1..Len(a.MoveHistory) :
           i <= Len(b.MoveHistory) => b.MoveHistory[i] = a.MoveHistory[i]

\* C31: in every state reached from NewGame by MakeMove, SelectPosition and
\* UndoLastMove, White is to move exactly when the move history has even
\* length and Black exactly when it has odd length; a successful MakeMove
\* appends exactly one record and flips the side, a successful UndoLastMove
\* removes exactly one record and flips the side back.
C31_TurnFollowsHistory ==
    /\ g.CurrentTurn = sideAfter(Len(g.MoveHistory))
    /\ (call.op \in {"MakeMove", "SelectMove"} /\ call.ok) =>
           /\ historyGrew(pre, g, 1)
           /\ g.CurrentTurn = 1 - pre.CurrentTurn
    /\ (call.op = "UndoLastMove" /\ call.ok) =>
           /\ historyGrew(pre, g, -1)
           /\ g.CurrentTurn = 1 - pre.CurrentTurn

\* a move made by two clicks after a move had been taken back leaves Black
\* to move on a history of odd length
C31_MoveAfterUndo ==
    /\ call.op = "SelectMove" /\ call.ok
    /\ undos > 0
    /\ Len(g.MoveHistory) % 2 = 1
    /\ g.CurrentTurn = BlackPlayer

\* C32: Stop can be called at any moment, the poller being in the middle
\* of an AI move or of its callback included: the goroutine never evaluates
\* the manager's ticker after Stop has set it to nil.
C32_StopAtAnyMoment == poller.pc # "nilTicker"

\* the event thread is in the send of stopTimer, called from newGame, and
\* no clock-refresh goroutine is left to receive: the one there was has
\* returned, or is itself in the send of stopTimer
newGameStuck ==
    /\ ui.thread = "newGame:stopTimer"
    /\ ui.refresher \in {"stopTimer", "exited"}

\* only startTimer launches a clock-refresh goroutine, and the event thread
\* that would call it is the one that waits: once stuck, stuck for ever
StuckForEver == [][newGameStuck => newGameStuck']_vars

\* C33: starting a new game always completes, whatever the state of the
\* previous game: stopTimer never blocks forever on its channel, the game
\* being over and updateStatus having stopped the clock-refresh goroutine
\* included.
C33_NewGameCompletes == ~newGameStuck

\* newGame has returned once: a GameState with its clock running again, and
\* a clock-refresh goroutine in its select
newGameDone ==
    /\ ui.thread = "ready" /\ ui.games > 0
    /\ g.TimerActive /\ ui.refresher = "select"

\* the time the two clocks of gs have been debited since NewGame
debited(gs) == 2 * InitialTime - gs.WhitePlayerTime - gs.BlackPlayerTime

\* C34: clock conservation.  Over StartTimer, StopTimer, MakeMove and
\* UndoLastMove at non-decreasing timestamps, every step debits the two
\* clocks together by exactly the time the clock was active between the
\* last clock sample and the sample the step takes: with the clock active
\* before and after, the distance between the two samples; at a StopTimer,
\* the time from the last sample to the stop; with the clock inactive,
\* nothing.  The sum of the debits is then the time the clock was active up
\* to the last sample: no interval is debited twice and none while the
\* clock is inactive.
C34_ClockConservation ==
    [][ /\ g.LastMoveTime <= now
        /\ debited(g') - debited(g) =
               IF ~g.TimerActive THEN 0
               ELSE IF g'.TimerActive THEN g'.LastMoveTime - g.LastMoveTime
               ELSE now - g.LastMoveTime ]_vars

\* both clocks have been debited, a move has been taken back, and the clock
\* was stopped later than its last sample and started again
C34_DebitedStoppedRestarted ==
    /\ g.WhitePlayerTime < InitialTime /\ g.BlackPlayerTime < InitialTime
    /\ undos > 0
    /\ call.op = "StartTimer" /\ ~pre.TimerActive /\ g.TimerActive
    /\ debited(g) = now

\* integer coordinates on the board and around it
Coords == {Pos(x, y) : x \in -1..8, y \in -1..8}

\* C35: no public operation (MakeMove, GetPossibleMoves, SelectPosition,
\* GetPieceAtPosition, GetGameStatus), called with any coordinates in any
\* reachable state, a state with a king missing or a pawn on its last rank
\* included, indexes the board outside [0,8)x[0,8).
C35_IndexesOnBoard ==
    /\ GetGameStatusIndexed(g) \subseteq Squares
    /\ \A pos \in Coords :
           /\ GetPossibleMovesIndexed(g, pos) \subseteq Squares
           /\ SelectPositionIndexed(g, pos) \subseteq Squares
           /\ GetPieceAtPositionIndexed(g, pos) \subseteq Squares
           /\ \A to \in Coords : MakeMoveIndexed(g, pos, to) \subseteq Squares

\* a pawn of the side to move stands on its last rank
C35_PawnOnLastRank ==
    /\ g.CurrentTurn = WhitePlayer
    /\ g.Board[7][0] = WhitePawn
    /\ Pos(0, 7) \in GetPossibleMovesIndexed(g, Pos(0, 7))

\* the directions a piece slides in; none for the pieces that do not slide
raysOf(piece) ==
    CASE piece \in {WhiteBishop, BlackBishop} -> bishopDirections
      [] piece \in {WhiteRook, BlackRook}     -> rookDirections
      [] piece \in {WhiteQueen, BlackQueen}   -> bishopDirections \cup rookDirections
      [] OTHER                                -> {}

\* d is on the board and does not hold a piece of the colour of the piece
\* on p
landsWell(board, p, d) ==
    /\ IsValidBoardPosition(d)
    /\ board[d.Y][d.X] # Empty =>
           IsPieceWhite(board[d.Y][d.X]) # IsPieceWhite(board[p.Y][p.X])

\* d is k squares from p in the direction dir, over empty squares only
clearRay(board, p, dir, k, d) ==
    /\ d = Pos(p.X + k * dir.X, p.Y + k * dir.Y)
    /\ \A j \in 1..(k - 1) : board[p.Y + j * dir.Y][p.X + j * dir.X] = Empty

\* C36: for every occupied square, no destination returned by GetPieceMoves
\* is off the board or holds a piece of the mover's colour, and for bishop,
\* rook and queen every square strictly between the origin and a returned
\* destination along the ray is empty: a sliding piece stops at the first
\* occupied square, which is returned only if it holds an enemy piece, and
\* every square it reaches before is returned.
C36_DestinationsAreSound ==
    \A p \in {q \in Squares : g.Board[q.Y][q.X] # Empty} :
        \A dests \in {SeqToSet(GetPieceMoves(g.Board, p))} :
            /\ \A d \in dests : landsWell(g.Board, p, d)
            /\ \A rays \in {raysOf(g.Board[p.Y][p.X])} :
                   rays # {} =>
                       /\ \A d \in dests :
                              \E dir \in rays, k \in 1..7 :
                                  clearRay(g.Board, p, dir, k, d)
                       /\ \A dir \in rays, k \in 1..7 :
                              \A d \in {Pos(p.X + k * dir.X, p.Y + k * dir.Y)} :
                                  (landsWell(g.Board, p, d)
                                      /\ clearRay(g.Board, p, dir, k, d))
                                  => d \in dests

\* the black queen on h4 can take the pawn h2 and cannot reach the rook h1
\* behind it; the white rook h1 has no destination at all
C36_QueenStopsAtPawn ==
    /\ g.Board[3][7] = BlackQueen /\ g.Board[1][7] = WhitePawn
    /\ g.Board[0][7] = WhiteRook
    /\ Pos(7, 1) \in SeqToSet(GetPieceMoves(g.Board, Pos(7, 3)))
    /\ Pos(7, 0) \notin SeqToSet(GetPieceMoves(g.Board, Pos(7, 3)))
    /\ GetPieceMoves(g.Board, Pos(7, 0)) = << >>

=============================================================================
